---- MODULE Spec2Model ----
(***************************************************************************)
(* Model of the knowledge-retrieval core of ai-town-board:                 *)
(*   src/src/knowledge/base_knowledge_provider.py  (KnowledgeProvider)     *)
(*   src/src/knowledge/meeting_corpus.py           (MeetingCorpus)         *)
(*                                                                         *)
(* Python strings are sequences of one-character strings, so that the      *)
(* chunker, the keyword extractor, the regular expressions and the         *)
(* scorer are computed character by character as the code computes them.   *)
(* Ordered dicts (self.documents, self.chunks) are sequences of records    *)
(* in insertion order, with dict assignment as replace-or-append.          *)
(***************************************************************************)
EXTENDS Integers, Sequences, FiniteSets, TLC

(***************************************************************************)
(* Python str primitives                                                   *)
(***************************************************************************)
UpperAlpha == <<"A","B","C","D","E","F","G","H","I","J","K","L","M",
                "N","O","P","Q","R","S","T","U","V","W","X","Y","Z">>
LowerAlpha == <<"a","b","c","d","e","f","g","h","i","j","k","l","m",
                "n","o","p","q","r","s","t","u","v","w","x","y","z">>
Digits == {"0","1","2","3","4","5","6","7","8","9"}
Whitespace == {" ", "\n", "\t"}

Range(s) == {s[i] : i \in 1..Len(s)}
IsUpper(c) == c \in Range(UpperAlpha)
IsAlpha(c) == c \in Range(UpperAlpha) \cup Range(LowerAlpha)
\* \w of the re module, on the ASCII characters the model uses
IsWordChar(c) == IsAlpha(c) \/ c \in Digits \/ c = "_"

\* str.lower()
LowerChar(c) ==
    IF IsUpper(c)
    THEN LowerAlpha[CHOOSE i \in 1..26 : UpperAlpha[i] = c]
    ELSE c
Lower(s) == [i \in 1..Len(s) |-> LowerChar(s[i])]

\* text[a:b] with 0-based, end-exclusive, clamped Python slice indices
Slice(s, a, b) ==
    LET lo == IF a < 0 THEN 0 ELSE a
        hi == IF b > Len(s) THEN Len(s) ELSE b
    IN  IF hi <= lo THEN <<>> ELSE SubSeq(s, lo + 1, hi)

\* s[i:].startswith(n), i 0-based
MatchAt(n, s, i) ==
    /\ i + Len(n) <= Len(s)
    /\ \A k \in 1..Len(n) : s[i + k] = n[k]

\* n in s
Contains(n, s) == \E i \in 0..Len(s) : MatchAt(n, s, i)

\* s.count(n): non-overlapping occurrences, scanning from the left
RECURSIVE CountFrom(_, _, _)
CountFrom(n, s, i) ==
    IF i + Len(n) > Len(s) THEN 0
    ELSE IF MatchAt(n, s, i)
         THEN 1 + CountFrom(n, s, i + (IF Len(n) = 0 THEN 1 ELSE Len(n)))
         ELSE CountFrom(n, s, i + 1)
Count(n, s) == CountFrom(n, s, 0)

\* s.strip()
RECURSIVE LStrip(_)
LStrip(s) == IF s # <<>> /\ Head(s) \in Whitespace THEN LStrip(Tail(s)) ELSE s
RECURSIVE RStrip(_)
RStrip(s) ==
    IF s # <<>> /\ s[Len(s)] \in Whitespace
    THEN RStrip(SubSeq(s, 1, Len(s) - 1))
    ELSE s
Strip(s) == RStrip(LStrip(s))

\* s.split(): the maximal runs of non-whitespace characters
RECURSIVE SplitFrom(_, _, _)
SplitFrom(s, i, cur) ==
    IF i > Len(s) THEN (IF cur = <<>> THEN <<>> ELSE <<cur>>)
    ELSE IF s[i] \in Whitespace
         THEN (IF cur = <<>> THEN <<>> ELSE <<cur>>) \o SplitFrom(s, i + 1, <<>>)
         ELSE SplitFrom(s, i + 1, Append(cur, s[i]))
Split(s) == SplitFrom(s, 1, <<>>)

(***************************************************************************)
(* KnowledgeProvider._chunk_text                                           *)
(***************************************************************************)
LookBackCap == 100
Boundary == {" ", "\n", "\t", ".", "!", "?", ";"}

Min(a, b) == IF a < b THEN a ELSE b
Max(a, b) == IF a > b THEN a ELSE b

\* the inner for loop: the first i in range(min(100, chunk_size // 4)) that
\* either stops the search (end - i <= start) or finds a boundary character
RECURSIVE LookBack(_, _, _, _, _)
LookBack(text, start, end, i, n) ==
    IF i >= n THEN end
    ELSE IF end - i <= start THEN end
    ELSE IF text[end - i + 1] \in Boundary THEN end - i + 1
    ELSE LookBack(text, start, end, i + 1, n)

\* where the window that starts at start ends
WindowEnd(text, start, chunk_size) ==
    LET end == start + chunk_size
    IN  IF end < Len(text)
        THEN LookBack(text, start, end, 0, Min(LookBackCap, chunk_size \div 4))
        ELSE end

NextStartSkipOverlap(start, end, overlap) == Max(start + 1, end)
\* a variant without the step of one character
NextStartStalling(start, end, overlap) == Max(start, end - overlap)
\* a variant that starts the next window one character late
NextStartPastEnd(start, end, overlap) == Max(start + 1, end + 1)
NextStart(start, end, overlap) == Max(start + 1, end - overlap)

\* the while loop; each element is [start, end, chunk], chunk already stripped
RECURSIVE Windows(_, _, _, _)
Windows(text, start, chunk_size, overlap) ==
    IF start >= Len(text) THEN <<>>
    ELSE LET end == WindowEnd(text, start, chunk_size)
             w == [start |-> start, end |-> end,
                   chunk |-> Strip(Slice(text, start, end))]
         IN  <<w>> \o Windows(text, NextStart(start, end, overlap), chunk_size, overlap)

_chunk_text(text, chunk_size, overlap) ==
    IF Len(text) <= chunk_size THEN <<text>>
    ELSE LET ws == SelectSeq(Windows(text, 0, chunk_size, overlap),
                          LAMBDA w : w.chunk # <<>>)
         IN  [i \in 1..Len(ws) |-> ws[i].chunk]

(***************************************************************************)
(* KnowledgeProvider._extract_keywords                                     *)
(***************************************************************************)
\* the grave accent cannot be written in a TLA+ string; this atom is that character
Backtick == "<grave>"
MarkdownPunct == {"#", "*", Backtick, "[", "]", "(", ")"}
MinKeywordLen == 3

\* re.findall(r'\b[a-zA-Z]{3,}\b', s): the maximal runs of \w characters
\* that are all letters and at least three long
RECURSIVE WordRuns(_, _, _)
WordRuns(s, i, cur) ==
    IF i > Len(s) THEN (IF cur = <<>> THEN <<>> ELSE <<cur>>)
    ELSE IF IsWordChar(s[i]) THEN WordRuns(s, i + 1, Append(cur, s[i]))
    ELSE (IF cur = <<>> THEN <<>> ELSE <<cur>>) \o WordRuns(s, i + 1, <<>>)
AlphaWords(s) ==
    SelectSeq(WordRuns(s, 1, <<>>),
           LAMBDA w : Len(w) >= MinKeywordLen /\ \A k \in 1..Len(w) : IsAlpha(w[k]))

\* the stop words longer than three characters (the shorter ones are
\* dropped by len(w) > 3 whether listed or not)
StopWords ==
    { <<"w","i","t","h">>, <<"t","h","i","s">>, <<"t","h","a","t">>,
      <<"t","h","e","s","e">>, <<"t","h","o","s","e">>, <<"w","e","r","e">>,
      <<"b","e","e","n">>, <<"b","e","i","n","g">>, <<"h","a","v","e">>,
      <<"d","o","e","s">>, <<"w","i","l","l">>, <<"w","o","u","l","d">>,
      <<"c","o","u","l","d">>, <<"s","h","o","u","l","d">>,
      <<"m","i","g","h","t">>, <<"s","h","a","l","l">> }

\* the keys of word_counts in first-seen order
RECURSIVE Distinct(_, _)
Distinct(ws, seen) ==
    IF ws = <<>> THEN <<>>
    ELSE IF Head(ws) \in seen THEN Distinct(Tail(ws), seen)
    ELSE <<Head(ws)>> \o Distinct(Tail(ws), seen \cup {Head(ws)})

Occurrences(w, ws) == Cardinality({i \in 1..Len(ws) : ws[i] = w})

\* sorted(items, key=count, reverse=True): stable, descending by count
RECURSIVE InsertByCount(_, _, _)
InsertByCount(w, sorted, ws) ==
    IF sorted = <<>> THEN <<w>>
    ELSE IF Occurrences(Head(sorted), ws) >= Occurrences(w, ws)
         THEN <<Head(sorted)>> \o InsertByCount(w, Tail(sorted), ws)
         ELSE <<w>> \o sorted
RECURSIVE SortByCount(_, _)
SortByCount(keys, ws) ==
    IF keys = <<>> THEN <<>>
    ELSE InsertByCount(keys[Len(keys)], SortByCount(SubSeq(keys, 1, Len(keys) - 1), ws), ws)

_extract_keywords(text, max_keywords) ==
    LET clean_text == SelectSeq(Lower(text), LAMBDA c : c \notin MarkdownPunct)
        words == AlphaWords(clean_text)
        keywords == SelectSeq(words, LAMBDA w : w \notin StopWords /\ Len(w) > MinKeywordLen)
        sorted_words == SortByCount(Distinct(keywords, {}), keywords)
    IN  Slice(sorted_words, 0, max_keywords)


(***************************************************************************)
(* Values shared by the corpus operators                                   *)
(***************************************************************************)
\* Python None where a string or a list may stand
None == "None"
\* Python None where an object (a dict or a dataclass instance) may stand
NoneRecord == [none |-> TRUE]
\* dict.get(key, default) on a record
Get(d, k, default) == IF k \in DOMAIN d THEN d[k] ELSE default

\* dict assignment d[key] = value on an insertion-ordered dict kept as a
\* sequence of records keyed by field kf: replace in place, else append
Put(d, kf, rec) ==
    IF \E i \in 1..Len(d) : d[i][kf] = rec[kf]
    THEN [i \in 1..Len(d) |-> IF d[i][kf] = rec[kf] THEN rec ELSE d[i]]
    ELSE Append(d, rec)

(***************************************************************************)
(* Configuration: config['knowledge']['meeting_corpus']                    *)
(***************************************************************************)
ChunkSize == 16
ChunkOverlap == 4

(***************************************************************************)
(* MeetingCorpus._determine_document_type                                  *)
(***************************************************************************)
TypeWords ==
    [index_md |-> <<"i","n","d","e","x",".","m","d">>,
     administrator |-> <<"a","d","m","i","n","i","s","t","r","a","t","o","r">>,
     minutes |-> <<"m","i","n","u","t","e","s">>,
     agenda |-> <<"a","g","e","n","d","a">>]

_determine_document_type(filename) ==
    LET filename_lower == Lower(filename)
    IN  IF Contains(TypeWords.index_md, filename_lower) THEN "index"
        ELSE IF Contains(TypeWords.administrator, filename_lower) THEN "administrative"
        ELSE IF Contains(TypeWords.minutes, filename_lower) THEN "minutes"
        ELSE IF Contains(TypeWords.agenda, filename_lower) THEN "agenda"
        ELSE "agenda_item"

(***************************************************************************)
(* MeetingCorpus._extract_description                                      *)
(***************************************************************************)
DescriptionMinLen == 50
DescriptionMaxLen == 200
DescriptionWords ==
    [document_information |-> <<"d","o","c","u","m","e","n","t"," ","i","n",
         "f","o","r","m","a","t","i","o","n">>,
     meeting_document_context |-> <<"m","e","e","t","i","n","g"," ","d","o",
         "c","u","m","e","n","t"," ", "c","o","n","t","e","x","t">>,
     source |-> <<"s","o","u","r","c","e",":">>,
     pages |-> <<"p","a","g","e","s",":">>,
     ellipsis |-> <<".",".",".">>]
DescriptionSkips ==
    {DescriptionWords.document_information,
     DescriptionWords.meeting_document_context,
     DescriptionWords.source, DescriptionWords.pages}

\* re.sub(r'#+\s*', '', s): every run of '#' goes with the whitespace after it
RECURSIVE SkipWhile(_, _, _)
SkipWhile(s, i, set) ==
    IF i <= Len(s) /\ s[i] \in set THEN SkipWhile(s, i + 1, set) ELSE i
RECURSIVE StripHeaders(_, _)
StripHeaders(s, i) ==
    IF i > Len(s) THEN <<>>
    ELSE IF s[i] = "#"
         THEN StripHeaders(s, SkipWhile(s, SkipWhile(s, i, {"#"}), Whitespace))
         ELSE <<s[i]>> \o StripHeaders(s, i + 1)

\* re.sub(open([^q]+)close, r'\1', s) for a delimiter made of n characters q
\* (n = 2, q = '*' for bold; n = 1, q = the grave accent for code)
AllAre(s, i, n, q) == i + n - 1 <= Len(s) /\ \A k \in i..(i + n - 1) : s[k] = q
RECURSIVE StripDelimited(_, _, _, _)
StripDelimited(s, i, n, q) ==
    IF i > Len(s) THEN <<>>
    ELSE LET body == i + n
             stop == SkipWhile(s, body, Range(s) \ {q})
         IN  IF AllAre(s, i, n, q) /\ stop > body /\ AllAre(s, stop, n, q)
             THEN SubSeq(s, body, stop - 1) \o StripDelimited(s, stop + n, n, q)
             ELSE <<s[i]>> \o StripDelimited(s, i + 1, n, q)

\* s.split('\n\n')
RECURSIVE SplitParagraphs(_, _, _)
SplitParagraphs(s, i, cur) ==
    IF i > Len(s) THEN <<cur>>
    ELSE IF i < Len(s) /\ s[i] = "\n" /\ s[i + 1] = "\n"
         THEN <<cur>> \o SplitParagraphs(s, i + 2, <<>>)
         ELSE SplitParagraphs(s, i + 1, Append(cur, s[i]))

_extract_description(content) ==
    LET c1 == StripHeaders(content, 1)
        c2 == StripDelimited(c1, 1, 2, "*")
        clean_content == StripDelimited(c2, 1, 1, Backtick)
        split == SplitParagraphs(clean_content, 1, <<>>)
        stripped == [i \in 1..Len(split) |-> Strip(split[i])]
        paragraphs == SelectSeq(stripped, LAMBDA para : para # <<>>)
        substantial ==
            SelectSeq(paragraphs,
                      LAMBDA para :
                        /\ ~ \E skip \in DescriptionSkips : Contains(skip, Lower(para))
                        /\ Len(para) > DescriptionMinLen)
    IN  IF substantial = <<>> THEN None
        ELSE IF Len(substantial[1]) > DescriptionMaxLen
             THEN Slice(substantial[1], 0, DescriptionMaxLen) \o DescriptionWords.ellipsis
             ELSE substantial[1]

(***************************************************************************)
(* MeetingCorpus._create_agenda_item                                       *)
(***************************************************************************)
SectionWords ==
    [administrator |-> TypeWords.administrator,
     public_hearing |-> <<"p","u","b","l","i","c"," ","h","e","a","r","i","n",
         "g">>,
     consider |-> <<"c","o","n","s","i","d","e","r">>,
     approval |-> <<"a","p","p","r","o","v","a","l">>,
     receipt |-> <<"r","e","c","e","i","p","t">>]

\* the maximal run of digits of s that starts at 1-based position i
DigitRun(s, i) == SubSeq(s, i, SkipWhile(s, i, Digits) - 1)

\* re.search(r'(\d+[A-Z]?)', s).group(1), or None
SearchTitleItem(s) ==
    IF \E i \in 1..Len(s) : s[i] \in Digits
    THEN LET i == CHOOSE i \in 1..Len(s) :
                    s[i] \in Digits /\ \A j \in 1..(i - 1) : s[j] \notin Digits
             run == DigitRun(s, i)
             j == i + Len(run)
         IN  run \o (IF j <= Len(s) /\ IsUpper(s[j]) THEN <<s[j]>> ELSE <<>>)
    ELSE None

\* re.search(r'--(\d+)-([A-Z])-', s): group(1) + group(2), or None
FilenameItemAt(s, i) ==
    LET run == DigitRun(s, i + 2)
        j == i + 2 + Len(run)
    IN  /\ AllAre(s, i, 2, "-")
        /\ run # <<>>
        /\ j + 2 <= Len(s)
        /\ s[j] = "-" /\ IsUpper(s[j + 1]) /\ s[j + 2] = "-"
SearchFilenameItem(s) ==
    IF \E i \in 1..Len(s) : FilenameItemAt(s, i)
    THEN LET i == CHOOSE i \in 1..Len(s) :
                    FilenameItemAt(s, i) /\ \A j \in 1..(i - 1) : ~FilenameItemAt(s, j)
             run == DigitRun(s, i + 2)
         IN  Append(run, s[i + 2 + Len(run) + 1])
    ELSE None

\* a variant that falls back on the whole filename
ItemNumberOrFilename(doc_info) ==
    LET title_match == SearchTitleItem(Get(doc_info, "segment_title", <<>>))
    IN  IF title_match # None THEN title_match
        ELSE Get(doc_info, "filename", <<>>)

ItemNumber(doc_info) ==
    LET title_match == SearchTitleItem(Get(doc_info, "segment_title", <<>>))
    IN  IF title_match # None THEN title_match
        ELSE SearchFilenameItem(Get(doc_info, "filename", <<>>))

\* a variant that tests the words in the opposite order
SectionOfLastMatch(title) ==
    LET t == Lower(title)
    IN  IF \E word \in {SectionWords.consider, SectionWords.approval,
                        SectionWords.receipt} : Contains(word, t)
        THEN "NEW BUSINESS"
        ELSE IF Contains(SectionWords.public_hearing, t) THEN "PUBLIC HEARINGS"
        ELSE IF Contains(SectionWords.administrator, t) THEN "ADMINISTRATIVE"
        ELSE "UNKNOWN"

SectionOf(title) ==
    LET t == Lower(title)
    IN  IF Contains(SectionWords.administrator, t) THEN "ADMINISTRATIVE"
        ELSE IF Contains(SectionWords.public_hearing, t) THEN "PUBLIC HEARINGS"
        ELSE IF \E word \in {SectionWords.consider, SectionWords.approval,
                              SectionWords.receipt} : Contains(word, t)
             THEN "NEW BUSINESS"
        ELSE "UNKNOWN"

AgendaKeywords == 10

\* the AgendaItem, or NoneRecord; the directory markdown/pdf-segments is taken
\* not to exist, so pdf_segment stays None
_create_agenda_item(doc_info, content) ==
    LET item_number == ItemNumber(doc_info)
        title == Strip(Get(doc_info, "segment_title", <<>>))
    IN  IF item_number = None THEN NoneRecord
        ELSE [id |-> item_number,
              section |-> SectionOf(title),
              item_number |-> item_number,
              title |-> title,
              description |-> _extract_description(content),
              markdown_file |-> Get(doc_info, "filename", None),
              pdf_segment |-> None,
              page_range |-> Get(doc_info, "page_range", None),
              page_count |-> Get(doc_info, "page_count", None),
              metadata |-> doc_info,
              keywords |-> _extract_keywords(content, AgendaKeywords)]

(***************************************************************************)
(* MeetingCorpus._create_document_chunks                                   *)
(***************************************************************************)
ChunkKeywords == 5
Str_chunk == <<"_","c","h","u","n","k","_">>
DigitChars == <<"0","1","2","3","4","5","6","7","8","9">>

\* str(n) for n >= 0
RECURSIVE Str(_)
Str(n) == IF n < 10 THEN <<DigitChars[n + 1]>>
          ELSE Append(Str(n \div 10), DigitChars[(n % 10) + 1])
\* f"{i:03d}"
RECURSIVE ZeroPad(_, _)
ZeroPad(s, width) == IF Len(s) >= width THEN s ELSE ZeroPad(<<"0">> \o s, width)
ChunkIdWidth == 3
ChunkId(filename, i) == filename \o Str_chunk \o ZeroPad(Str(i), ChunkIdWidth)

\* the DocumentChunk built for the i-th (0-based) piece of a document
DocumentChunk(filename, chunk_text, i, doc_info, chunk_size, chunk_overlap) ==
    LET start_char == i * (chunk_size - chunk_overlap)
    IN  [chunk_id |-> ChunkId(filename, i),
         file_path |-> filename,
         content |-> chunk_text,
         start_char |-> start_char,
         end_char |-> start_char + Len(chunk_text),
         metadata |-> [document_type |-> _determine_document_type(filename),
                       filename |-> filename,
                       chunk_index |-> i,
                       page_range |-> Get(doc_info, "page_range", None),
                       segment_title |-> Get(doc_info, "segment_title", <<>>),
                       source_file |-> Get(doc_info, "source_file", <<>>)],
         embedding |-> None,
         keywords |-> _extract_keywords(chunk_text, ChunkKeywords)]

RECURSIVE PutAll(_, _, _)
PutAll(d, kf, recs) ==
    IF recs = <<>> THEN d ELSE PutAll(Put(d, kf, Head(recs)), kf, Tail(recs))

\* the chunks _create_document_chunks(filename, content, doc_info) creates
NewChunks(filename, content, doc_info) ==
    LET text_chunks == _chunk_text(content, ChunkSize, ChunkOverlap)
    IN  [k \in 1..Len(text_chunks) |->
            DocumentChunk(filename, text_chunks[k], k - 1, doc_info,
                          ChunkSize, ChunkOverlap)]

(***************************************************************************)
(* The meeting directories explored: three file names, the manifests that  *)
(* list them, and the contents each file may have.  A file is a record     *)
(* with exists; a JSON file that exists has valid (it parses) and, when    *)
(* valid, json.                                                            *)
(***************************************************************************)
NoFile == [exists |-> FALSE]
BadJson == [exists |-> TRUE, valid |-> FALSE]
JsonFile(v) == [exists |-> TRUE, valid |-> TRUE, json |-> v]
TextFile(content) == [exists |-> TRUE, content |-> content]

FN_Permit == <<"5","b","-","p","e","r","m","i","t",".","m","d">>
FN_Minutes == <<"m","i","n","u","t","e","s",".","m","d">>
FN_Index == TypeWords.index_md
FileNames == {FN_Permit, FN_Minutes, FN_Index}

Doc_Permit ==
    [filename |-> FN_Permit,
     segment_title |-> <<"5","B"," ","P","e","r","m","i","t"," ",
                         "a","p","p","r","o","v","a","l">>,
     page_count |-> 2]
Doc_Minutes ==
    [filename |-> FN_Minutes, segment_title |-> <<"M","i","n","u","t","e","s">>]
\* a manifest entry without the key 'filename'
Doc_NoFilename == [segment_title |-> <<"M","i","n","u","t","e","s">>]

Manifests ==
    { [documents |-> <<Doc_Permit, Doc_Minutes>>],
      [documents |-> <<Doc_Minutes, Doc_NoFilename>>] }
ManifestFiles == {NoFile} \cup {JsonFile(m) : m \in Manifests}

Text_PermitA ==
    <<"p","e","r","m","i","t"," ","f","e","e"," ","a","p","p","r","o","v","e","d",".",
      " ","p","e","r","m","i","t"," ","o","k">>
Text_Minutes ==
    <<"m","i","n","u","t","e","s"," ","o","f"," ","t","h","e"," ","b","o","a","r","d">>
Text_Index ==
    <<"a","g","e","n","d","a"," ","o","v","e","r","v","i","e","w",":"," ",
      "p","e","r","m","i","t">>
Contents(filename) ==
    IF filename = FN_Permit THEN {Text_PermitA}
    ELSE IF filename = FN_Minutes THEN {Text_Minutes}
    ELSE {Text_Index}
\* the file of the agenda item comes and goes; the other two are always there
MarkdownFiles(filename) ==
    (IF filename = FN_Permit THEN {NoFile} ELSE {})
    \cup {TextFile(c) : c \in Contents(filename)}

\* the doc_info _process_index_document passes for index.md
IndexDocInfo == [document_type |-> "index"]

\* The chunks and the agenda item of every (doc_info, content) pair of these
\* directories, computed once: the operators are pure, and the tables hold
\* exactly what they return
KnownDocs ==
    UNION {{<<d, c>> : c \in Contents(d.filename)} : d \in {Doc_Permit, Doc_Minutes}}
    \cup {<<IndexDocInfo, c>> : c \in Contents(FN_Index)}
FileNameOf(doc_info) == IF "filename" \in DOMAIN doc_info THEN doc_info.filename ELSE FN_Index
ChunkTable == [key \in KnownDocs |-> NewChunks(FileNameOf(key[1]), key[2], key[1])]
AgendaTable ==
    [key \in {k \in KnownDocs : "filename" \in DOMAIN k[1]} |->
        _create_agenda_item(key[1], key[2])]

\* self.chunks after _create_document_chunks(filename, content, doc_info)
_create_document_chunks(chunk_map, filename, content, doc_info) ==
    PutAll(chunk_map, "chunk_id",
           IF <<doc_info, content>> \in DOMAIN ChunkTable
              /\ FileNameOf(doc_info) = filename
           THEN ChunkTable[<<doc_info, content>>]
           ELSE NewChunks(filename, content, doc_info))

\* _create_agenda_item(doc_info, content), from the table where it has it
AgendaItemOf(doc_info, content) ==
    IF <<doc_info, content>> \in DOMAIN AgendaTable
    THEN AgendaTable[<<doc_info, content>>]
    ELSE _create_agenda_item(doc_info, content)

(***************************************************************************)
(* MeetingCorpus._calculate_relevance_score                                *)
(*                                                                         *)
(* The float score is kept exact as a pair: raw2 is twice the score before *)
(* normalisation (every addend is a multiple of 0.5) and norm is the       *)
(* content length it is normalised by, score = (raw2 / 2) / sqrt(norm /    *)
(* 1000); content of length 0 is not normalised, which is norm = 1000.     *)
(***************************************************************************)
MinQueryWordLen == 3
PhraseBonus2 == 6
WordCap2 == 4
KeywordBonus2 == 2
IndexBonus2 == 4
AgendaItemBonus2 == 3
NormUnit == 1000
QueryWords ==
    [agenda |-> TypeWords.agenda,
     what |-> <<"w","h","a","t">>,
     overview |-> <<"o","v","e","r","v","i","e","w">>,
     item |-> <<"i","t","e","m">>,
     specific |-> <<"s","p","e","c","i","f","i","c">>]

RECURSIVE SumSeq(_)
SumSeq(s) == IF s = <<>> THEN 0 ELSE Head(s) + SumSeq(Tail(s))

\* a variant without the cap
WordScore2Uncapped(word, content_lower) ==
    IF Len(word) < MinQueryWordLen THEN 0 ELSE Count(word, content_lower)

\* min(word_count * 0.5, 2.0), doubled; words under three characters are skipped
WordScore2(word, content_lower) ==
    IF Len(word) < MinQueryWordLen THEN 0
    ELSE Min(Count(word, content_lower), WordCap2)

\* a variant that gives an agenda item the bonus of the index
TypeBonus2SameForItems(doc_type, query) ==
    IF doc_type \in {"index", "agenda_item"}
       /\ \E word \in {QueryWords.agenda, QueryWords.what, QueryWords.overview} :
              Contains(word, query)
    THEN IndexBonus2
    ELSE IF doc_type = "agenda_item"
            /\ \E word \in {QueryWords.item, QueryWords.specific} : Contains(word, query)
    THEN AgendaItemBonus2
    ELSE 0

TypeBonus2(doc_type, query) ==
    IF doc_type = "index"
       /\ \E word \in {QueryWords.agenda, QueryWords.what, QueryWords.overview} :
              Contains(word, query)
    THEN IndexBonus2
    ELSE IF doc_type = "agenda_item"
            /\ \E word \in {QueryWords.item, QueryWords.specific} : Contains(word, query)
    THEN AgendaItemBonus2
    ELSE 0

_calculate_relevance_score(query, chunk) ==
    LET content_lower == Lower(chunk.content)
        query_words == Split(query)
        phrase == IF Contains(query, content_lower) THEN PhraseBonus2 ELSE 0
        words == SumSeq([i \in 1..Len(query_words) |->
                            WordScore2(query_words[i], content_lower)])
        keywords == KeywordBonus2 *
            Cardinality({<<k, w>> \in (1..Len(chunk.keywords)) \X (1..Len(query_words)) :
                            Contains(Lower(query_words[w]), Lower(chunk.keywords[k]))})
        bonus == TypeBonus2(Get(chunk.metadata, "document_type", ""), query)
    IN  [raw2 |-> phrase + words + keywords + bonus,
         norm |-> IF Len(chunk.content) > 0 THEN Len(chunk.content) ELSE NormUnit]

\* the queries, filters and top_k values searched with
Queries ==
    { <<"P","e","r","m","i","t">>,
      <<"a","g","e","n","d","a"," ","m","i","n","u","t","e","s">> }
FilterSets == { <<>>, [document_type |-> "minutes"] }
MaxTopK == 1

\* the searches made of an indexed corpus where the ranking is looked at: a
\* query that matches several chunks with different scores, one that gives
\* two chunks of equal length the same score, one that matches nothing;
\* filters for a type with chunks, and for a type without; top_k from 0
SearchQueries ==
    Queries \cup { <<"o","v","e","r"," ","p","e","r","m","i","t">>,
                   <<"z","o","n","i","n","g">> }
SearchFilterSets ==
    FilterSets \cup { [document_type |-> "agenda_item"], [document_type |-> "agenda"] }
SearchTopK == 3

\* The score of every chunk of these directories for every query, computed
\* once: _calculate_relevance_score is pure
KnownChunks == UNION {Range(ChunkTable[key]) : key \in KnownDocs}
ScoreTable ==
    [q \in {Lower(query) : query \in SearchQueries} |->
        [chunk \in KnownChunks |-> _calculate_relevance_score(q, chunk)]]
ScoreOf(query_lower, chunk) ==
    IF query_lower \in DOMAIN ScoreTable /\ chunk \in KnownChunks
    THEN ScoreTable[query_lower][chunk]
    ELSE _calculate_relevance_score(query_lower, chunk)

\* a variant that takes every score for a match
PositiveAlways(score) == TRUE

\* score > 0, and a.relevance_score > b.relevance_score
Positive(score) == score.raw2 > 0
Greater(a, b) == a.raw2 * a.raw2 * b.norm > b.raw2 * b.raw2 * a.norm

(***************************************************************************)
(* MeetingCorpus._apply_filters; filters is a record, the empty dict <<>>  *)
(***************************************************************************)
\* a variant that lets every chunk through
_apply_filtersNothing(chunk, filters) == TRUE

_apply_filters(chunk, filters) ==
    \A filter_key \in DOMAIN filters :
        LET filter_value == filters[filter_key]
            chunk_value == Get(chunk.metadata, filter_key, None)
        IN  /\ filter_key = "document_type" => chunk_value = filter_value
            /\ filter_key = "agenda_item_id" =>
                   Contains(filter_value, Get(chunk.metadata, "filename", <<>>))

(***************************************************************************)
(* MeetingCorpus.search, lines 120-154: the scan of an indexed corpus      *)
(***************************************************************************)
Evidence(chunk, score) ==
    [chunk_id |-> chunk.chunk_id,
     file_path |-> chunk.file_path,
     content |-> chunk.content,
     relevance_score |-> score,
     source_type |-> Get(chunk.metadata, "document_type", "unknown"),
     metadata |-> chunk.metadata,
     anchor |-> Get(chunk.metadata, "anchor", None),
     start_char |-> chunk.start_char,
     end_char |-> chunk.end_char]

\* list.sort(key=relevance_score, reverse=True): stable, descending
RECURSIVE InsertByScore(_, _)
InsertByScore(e, sorted) ==
    IF sorted = <<>> THEN <<e>>
    ELSE IF Greater(e.relevance_score, Head(sorted).relevance_score)
         THEN <<e>> \o sorted
         ELSE <<Head(sorted)>> \o InsertByScore(e, Tail(sorted))
\* a variant that leaves the list in insertion order
SortByScoreUnsorted(es) == es

RECURSIVE SortByScore(_)
SortByScore(es) ==
    IF es = <<>> THEN <<>>
    ELSE InsertByScore(es[Len(es)], SortByScore(SubSeq(es, 1, Len(es) - 1)))

\* the for loop of lines 125-147: every chunk with its score, then those kept
Scored(chunk_map, query_lower) ==
    [i \in 1..Len(chunk_map) |->
        [chunk |-> chunk_map[i], score |-> ScoreOf(query_lower, chunk_map[i])]]
Kept(scored, filters) ==
    SelectSeq(scored,
              LAMBDA sc : /\ Positive(sc.score)
                          /\ (filters = <<>> \/ _apply_filters(sc.chunk, filters)))
Evidences(kept) == [i \in 1..Len(kept) |-> Evidence(kept[i].chunk, kept[i].score)]

\* a variant that returns the whole ranking
ScanChunksUnsliced(chunk_map, query, filters, top_k) ==
    SortByScore(Evidences(Kept(Scored(chunk_map, Lower(query)), filters)))

ScanChunks(chunk_map, query, filters, top_k) ==
    Slice(SortByScore(Evidences(Kept(Scored(chunk_map, Lower(query)), filters))),
          0, top_k)

(***************************************************************************)
(* The state: the meeting directory (manifest, markdown files, the two     *)
(* index files under .index/) and one MeetingCorpus instance on it.        *)
(***************************************************************************)
\* two ways of naming the one meeting directory; str(Path) differs, .name agrees
MeetingDirs == {"data/m1", "/srv/data/m1"}
CorpusId(dir) == "meeting_m1"


VARIABLES
    manifest,        \* markdown/metadata.json
    markdown,        \* markdown/<filename>, for filename in FileNames
    metadata_file,   \* .index/meeting_index.json
    chunks_file,     \* .index/chunks.jsonl
    meeting_dir,     \* self.meeting_dir
    indexed,         \* self.indexed
    documents,       \* self.documents
    chunks,          \* self.chunks
    agenda_items,    \* self.agenda_items
    meeting_context, \* self.meeting_context
    last,            \* the last call made on the instance, and what it returned
    race,            \* two other processes rebuilding the index, when there are
    rebuild          \* a thread of this process inside index_corpus, when there is

fs_vars == <<manifest, markdown>>
disk_vars == <<metadata_file, chunks_file>>
self_vars == <<meeting_dir, indexed, documents, chunks, agenda_items, meeting_context>>
vars == <<manifest, markdown, metadata_file, chunks_file, meeting_dir, indexed,
          documents, chunks, agenda_items, meeting_context, last, race, rebuild>>

\* the instance as one value
Self == [meeting_dir |-> meeting_dir, indexed |-> indexed, documents |-> documents,
         chunks |-> chunks, agenda_items |-> agenda_items,
         meeting_context |-> meeting_context]
Disk == [metadata_file |-> metadata_file, chunks_file |-> chunks_file]

(***************************************************************************)
(* MeetingCorpus._process_meeting_documents                                *)
(***************************************************************************)
DocData(dir, filename, content, doc_info) ==
    [filename |-> filename, content |-> content, metadata |-> doc_info,
     path |-> <<dir, "markdown", filename>>]

FileOf(md, filename) == IF filename \in DOMAIN md THEN md[filename] ELSE NoFile

RawDocuments(raw_metadata) == Get(raw_metadata, "documents", <<>>)
TotalPages(raw_metadata) ==
    LET docs == RawDocuments(raw_metadata)
    IN  SumSeq([i \in 1..Len(docs) |-> Get(docs[i], "page_count", 0)])

\* if agenda_item: self.agenda_items.append(agenda_item)
AppendItem(items, agenda_item) ==
    IF agenda_item # NoneRecord THEN Append(items, agenda_item) ELSE items

\* one pass of the for loop body, lines 207-235, for a file that exists
ProcessDocument(self, doc_info, content) ==
    [self EXCEPT
       !.documents = Put(@, "filename",
            DocData(self.meeting_dir, doc_info.filename, content, doc_info)),
       !.agenda_items = AppendItem(@, AgendaItemOf(doc_info, content)),
       !.chunks = _create_document_chunks(@, doc_info.filename, content, doc_info)]

\* a variant that indexes a missing file as an empty document
ProcessEntryEmptyDocument(self, doc_info, file) ==
    ProcessDocument(self, doc_info, IF file.exists THEN file.content ELSE <<>>)

\* a variant that makes the agenda item of an entry whose file is missing
ProcessEntryItemOfMissing(self, doc_info, file) ==
    IF ~file.exists
    THEN [self EXCEPT !.agenda_items = AppendItem(@, AgendaItemOf(doc_info, <<>>))]
    ELSE ProcessDocument(self, doc_info, file.content)

\* lines 204-212: the entry's file is read, or the entry is skipped
ProcessEntry(self, doc_info, file) ==
    IF ~file.exists THEN self ELSE ProcessDocument(self, doc_info, file.content)

\* the for loop from its i-th entry on; raised is the KeyError of
\* doc_info['filename'], which leaves the loop and the method
RECURSIVE ProcessLoop(_, _, _, _)
ProcessLoop(self, docs, i, md) ==
    IF i > Len(docs) THEN [self |-> self, raised |-> FALSE]
    ELSE IF "filename" \notin DOMAIN docs[i] THEN [self |-> self, raised |-> TRUE]
    ELSE ProcessLoop(ProcessEntry(self, docs[i], FileOf(md, docs[i].filename)),
                     docs, i + 1, md)

MeetingContext(dir, raw_metadata, docs, items, total_documents) ==
    [meeting_dir |-> dir,
     metadata |-> raw_metadata,
     documents |-> docs,
     agenda_items |-> items,
     total_documents |-> total_documents,
     total_pages |-> TotalPages(raw_metadata)]

\* lines 238-246: self.meeting_context, unless the loop raised
CreateMeetingContext(loop, raw_metadata) ==
    IF loop.raised THEN loop
    ELSE [self |-> [loop.self EXCEPT !.meeting_context =
                        MeetingContext(loop.self.meeting_dir, raw_metadata,
                                       loop.self.documents, loop.self.agenda_items,
                                       Len(loop.self.documents))],
          raised |-> FALSE]

\* a variant that builds on the previous index
ResetIndexKeeping(self) == self

\* lines 199-201: the three collections start empty
ResetIndex(self) ==
    [self EXCEPT !.documents = <<>>, !.chunks = <<>>, !.agenda_items = <<>>]

_process_meeting_documents(self, raw_metadata, md) ==
    CreateMeetingContext(
        ProcessLoop(ResetIndex(self), RawDocuments(raw_metadata), 1, md),
        raw_metadata)

(***************************************************************************)
(* MeetingCorpus._process_index_document                                   *)
(***************************************************************************)
IndexDocMetadata == [document_type |-> "index", special |-> TRUE]

AddIndexDocument(self, file) ==
    IF ~file.exists THEN self
    ELSE [self EXCEPT
            !.documents = Put(@, "filename",
                DocData(self.meeting_dir, FN_Index, file.content, IndexDocMetadata)),
            !.chunks = _create_document_chunks(@, FN_Index, file.content, IndexDocInfo)]

_process_index_document(self, md) == AddIndexDocument(self, FileOf(md, FN_Index))

(***************************************************************************)
(* MeetingCorpus._save_index                                               *)
(*                                                                         *)
(* fault is where the persistence layer fails, if it does: opening the     *)
(* metadata file (nothing is written), writing it (the file is left        *)
(* truncated), opening the chunks file (it keeps its old contents) or      *)
(* writing it (it is left truncated).  The except clause logs the error    *)
(* and the method returns normally.                                        *)
(***************************************************************************)
Faults == {"none", "meta_write", "chunks_open"}

\* indexed_at, a timestamp that is never read back, is left out
IndexMetadata(self) ==
    [corpus_id |-> CorpusId(self.meeting_dir),
     meeting_dir |-> self.meeting_dir,
     document_count |-> Len(self.documents),
     chunk_count |-> Len(self.chunks)]

\* one line of chunks.jsonl: chunk_dict, the chunk without its embedding
ChunkDict(chunk) ==
    [chunk_id |-> chunk.chunk_id, file_path |-> chunk.file_path,
     content |-> chunk.content, start_char |-> chunk.start_char,
     end_char |-> chunk.end_char, metadata |-> chunk.metadata,
     keywords |-> chunk.keywords]
ChunkLines(chunk_map) == [i \in 1..Len(chunk_map) |-> ChunkDict(chunk_map[i])]

\* the two files as the try block of _save_index leaves them; raised tells
\* whether an exception reached its except clause
WriteChunks(self, disk, fault) ==
    IF fault = "chunks_open" THEN [disk |-> disk, raised |-> TRUE]
    ELSE IF fault = "chunks_write"
    THEN [disk |-> [disk EXCEPT !.chunks_file = [exists |-> TRUE, lines |-> <<>>]],
          raised |-> TRUE]
    ELSE [disk |-> [disk EXCEPT !.chunks_file =
                        [exists |-> TRUE, lines |-> ChunkLines(self.chunks)]],
          raised |-> FALSE]

SaveFiles(self, disk, fault) ==
    IF fault = "meta_open" THEN [disk |-> disk, raised |-> TRUE]
    ELSE IF fault = "meta_write"
    THEN [disk |-> [disk EXCEPT !.metadata_file = BadJson], raised |-> TRUE]
    ELSE WriteChunks(self,
                     [disk EXCEPT !.metadata_file = JsonFile(IndexMetadata(self))],
                     fault)

\* what the caller of _save_index sees: the disk, and whether the exception
\* leaves the method; the except clause logs it and the method returns
SaveRaises(saved) == FALSE
Caught(saved) == [disk |-> saved.disk, raised |-> SaveRaises(saved)]
_save_index(self, disk, fault) == Caught(SaveFiles(self, disk, fault))

(***************************************************************************)
(* MeetingCorpus.index_corpus                                              *)
(***************************************************************************)
\* the result of a call: the instance, the disk and the return value
IndexResult(self, disk, ret) == [self |-> self, disk |-> disk, ret |-> ret]

\* a variant without the early return of lines 71-73
NeedsWorkAlways(self, force_rebuild) == TRUE

NeedsWork(self, force_rebuild) == ~(self.indexed /\ ~force_rebuild)

\* lines 93-98: after _save_index, the flag and the return value
MarkIndexed(self, saved) ==
    IF saved.raised THEN IndexResult(self, saved.disk, FALSE)
    ELSE IndexResult([self EXCEPT !.indexed = TRUE], saved.disk, TRUE)

\* lines 93-98, on the instance _process_index_document left
SaveAndMark(self, disk, fault) == MarkIndexed(self, _save_index(self, disk, fault))

\* a variant whose except clause marks the corpus unindexed
AfterDocumentsResetting(processed, disk, md, fault) ==
    IF processed.raised
    THEN IndexResult([processed.self EXCEPT !.indexed = FALSE], disk, FALSE)
    ELSE SaveAndMark(_process_index_document(processed.self, md), disk, fault)

\* lines 90-102, on what _process_meeting_documents left
AfterDocuments(processed, disk, md, fault) ==
    IF processed.raised THEN IndexResult(processed.self, disk, FALSE)
    ELSE SaveAndMark(_process_index_document(processed.self, md), disk, fault)

\* a variant that clears the previous index before it looks for the manifest
index_corpusClearingFirst(self, disk, mf, md, force_rebuild, fault) ==
    IF ~NeedsWork(self, force_rebuild) THEN IndexResult(self, disk, TRUE)
    ELSE IF ~mf.exists
    THEN IndexResult([self EXCEPT !.documents = <<>>, !.chunks = <<>>,
                                  !.agenda_items = <<>>], disk, FALSE)
    ELSE IF ~mf.valid THEN IndexResult(self, disk, FALSE)
    ELSE AfterDocuments(_process_meeting_documents(self, mf.json, md), disk, md, fault)

index_corpus(self, disk, mf, md, force_rebuild, fault) ==
    IF ~NeedsWork(self, force_rebuild) THEN IndexResult(self, disk, TRUE)
    ELSE IF ~mf.exists THEN IndexResult(self, disk, FALSE)
    ELSE IF ~mf.valid THEN IndexResult(self, disk, FALSE)
    ELSE AfterDocuments(_process_meeting_documents(self, mf.json, md), disk, md, fault)

(***************************************************************************)
(* MeetingCorpus._recreate_meeting_context                                 *)
(***************************************************************************)
\* one pass of the for loop body, lines 496-518, over the locals documents
\* and agenda_items, for a file that exists
RecreateItem(filename, agenda_item) ==
    IF filename # FN_Index /\ agenda_item # NoneRecord THEN agenda_item ELSE NoneRecord

RecreateDocument(acc, doc_info, content, dir) ==
    [acc EXCEPT
       !.documents = Put(@, "filename", DocData(dir, doc_info.filename, content, doc_info)),
       !.agenda_items =
            AppendItem(@, RecreateItem(doc_info.filename, AgendaItemOf(doc_info, content)))]

RecreateEntry(acc, doc_info, file, dir) ==
    IF ~file.exists THEN acc ELSE RecreateDocument(acc, doc_info, file.content, dir)

\* the for loop from its i-th entry on; raised is the KeyError of
\* doc_info['filename']
RECURSIVE RecreateLoop(_, _, _, _, _)
RecreateLoop(acc, docs, i, md, dir) ==
    IF i > Len(docs) THEN acc
    ELSE IF "filename" \notin DOMAIN docs[i] THEN [acc EXCEPT !.raised = TRUE]
    ELSE RecreateLoop(RecreateEntry(acc, docs[i], FileOf(md, docs[i].filename), dir),
                      docs, i + 1, md, dir)

\* lines 520-531, unless the loop raised
Recreated(self, loop, raw_metadata) ==
    IF loop.raised THEN self
    ELSE [self EXCEPT
            !.documents = loop.documents,
            !.agenda_items = loop.agenda_items,
            !.meeting_context =
                MeetingContext(self.meeting_dir, raw_metadata, <<>>,
                               loop.agenda_items,
                               Len(RawDocuments(raw_metadata)))]

_recreate_meeting_context(self, raw_metadata, md) ==
    Recreated(self,
              RecreateLoop([documents |-> <<>>, agenda_items |-> <<>>, raised |-> FALSE],
                           RawDocuments(raw_metadata), 1, md, self.meeting_dir),
              raw_metadata)

(***************************************************************************)
(* MeetingCorpus._load_existing_index                                      *)
(***************************************************************************)
\* DocumentChunk(**json.loads(line)): embedding takes its default
ChunkFromLine(chunk_data) ==
    [chunk_id |-> chunk_data.chunk_id, file_path |-> chunk_data.file_path,
     content |-> chunk_data.content, start_char |-> chunk_data.start_char,
     end_char |-> chunk_data.end_char, metadata |-> chunk_data.metadata,
     embedding |-> None, keywords |-> chunk_data.keywords]
LoadChunks(lines) ==
    PutAll(<<>>, "chunk_id", [i \in 1..Len(lines) |-> ChunkFromLine(lines[i])])

\* a variant that trusts any cached index
IndexIsValidAlways(index_data, self) == TRUE

IndexIsValid(index_data, self) == Get(index_data, "meeting_dir", None) = self.meeting_dir

\* lines 476-481: the manifest is read again for the meeting context
ReloadContext(loaded, mf, md) ==
    IF ~mf.exists THEN loaded
    ELSE IF ~mf.valid THEN loaded
    ELSE _recreate_meeting_context(loaded, mf.json, md)

_load_existing_index(self, disk, mf, md) ==
    IF ~(disk.metadata_file.exists /\ disk.chunks_file.exists) THEN self
    ELSE IF ~disk.metadata_file.valid THEN self
    ELSE IF ~IndexIsValid(disk.metadata_file.json, self) THEN self
    ELSE ReloadContext([self EXCEPT !.chunks = LoadChunks(disk.chunks_file.lines),
                                    !.indexed = TRUE],
                       mf, md)

(***************************************************************************)
(* MeetingCorpus.__init__ and KnowledgeProvider.__init__                   *)
(***************************************************************************)
NewInstance(dir) ==
    [meeting_dir |-> dir, indexed |-> FALSE, documents |-> <<>>, chunks |-> <<>>,
     agenda_items |-> <<>>, meeting_context |-> NoneRecord]

__init__(dir, disk, mf, md) == _load_existing_index(NewInstance(dir), disk, mf, md)

(***************************************************************************)
(* MeetingCorpus.search                                                    *)
(***************************************************************************)
\* a variant that searches whatever is in memory
LazyIndexSkipped(self, disk, mf, md, fault) == IndexResult(self, disk, TRUE)

\* a variant that re-indexes before every search
LazyIndexAlways(self, disk, mf, md, fault) ==
    index_corpus(self, disk, mf, md, TRUE, fault)

\* the lazy indexing attempt of an unindexed corpus: index_corpus()
LazyIndex(self, disk, mf, md, fault) ==
    IF self.indexed THEN IndexResult(self, disk, TRUE)
    ELSE index_corpus(self, disk, mf, md, FALSE, fault)

\* lines 117-154, after the lazy indexing attempt
SearchAfter(attempt, query, filters, top_k) ==
    IF ~attempt.ret THEN IndexResult(attempt.self, attempt.disk, <<>>)
    ELSE IndexResult(attempt.self, attempt.disk,
                     ScanChunks(attempt.self.chunks, query, filters, top_k))

search(self, disk, mf, md, query, filters, top_k, fault) ==
    SearchAfter(LazyIndex(self, disk, mf, md, fault), query, filters, top_k)

(***************************************************************************)
(* KnowledgeProvider.get_corpus_stats and the accessors                    *)
(***************************************************************************)
\* the bytes of the files in .index/, in units of one character of chunk
\* content, a JSON object counting MetadataBytes
MetadataBytes == 1
_get_index_size_mb(disk) ==
    (IF disk.metadata_file.exists /\ disk.metadata_file.valid THEN MetadataBytes ELSE 0)
    + (IF disk.chunks_file.exists
       THEN SumSeq([i \in 1..Len(disk.chunks_file.lines) |->
                        Len(disk.chunks_file.lines[i].chunk_id)
                        + Len(disk.chunks_file.lines[i].content)])
       ELSE 0)

get_corpus_stats(self, disk) ==
    [corpus_id |-> CorpusId(self.meeting_dir),
     indexed |-> self.indexed,
     document_count |-> Len(self.documents),
     chunk_count |-> Len(self.chunks),
     index_size_mb |-> _get_index_size_mb(disk)]

\* self.documents.get(doc_id)
get_document(self, doc_id) ==
    IF \E i \in 1..Len(self.documents) : self.documents[i].filename = doc_id
    THEN self.documents[CHOOSE i \in 1..Len(self.documents) :
                            self.documents[i].filename = doc_id]
    ELSE NoneRecord

get_agenda_items(self) == self.agenda_items

get_meeting_context(self) == self.meeting_context

(***************************************************************************)
(* The state machine: one MeetingCorpus instance on one meeting directory, *)
(* whose manifest and markdown files other programs write and remove.      *)
(***************************************************************************)
\* ret is what index_corpus returned (after __init__, is_indexed()), evidence
\* what search returned and stats what get_corpus_stats returned
Call(op, args, was, ret) ==
    [op |-> op, args |-> args, was_indexed |-> was, ret |-> ret,
     evidence |-> <<>>, stats |-> NoneRecord]

SetSelf(self) ==
    /\ meeting_dir' = self.meeting_dir
    /\ indexed' = self.indexed
    /\ documents' = self.documents
    /\ chunks' = self.chunks
    /\ agenda_items' = self.agenda_items
    /\ meeting_context' = self.meeting_context

SetDisk(disk) ==
    /\ metadata_file' = disk.metadata_file
    /\ chunks_file' = disk.chunks_file

\* the instance a constructor returned
IsSelf(self) ==
    /\ meeting_dir = self.meeting_dir
    /\ indexed = self.indexed
    /\ documents = self.documents
    /\ chunks = self.chunks
    /\ agenda_items = self.agenda_items
    /\ meeting_context = self.meeting_context

\* a call that returned r: the instance and the disk it left
Returned(r) ==
    /\ SetSelf(r.self)
    /\ SetDisk(r.disk)
    /\ UNCHANGED <<fs_vars, race, rebuild>>

IndexCorpusReturned(args, r) ==
    /\ Returned(r)
    /\ last' = Call("index_corpus", args, indexed, r.ret)

SearchReturned(args, r) ==
    /\ Returned(r)
    /\ last' = [Call("search", args, indexed, r.self.indexed) EXCEPT !.evidence = r.ret]

\* no thread is inside index_corpus
NoRebuild == [pc |-> "idle", i |-> 0, raw_metadata |-> <<>>, before |-> <<>>]

\* no other process is at work
NoRace == [procs |-> <<>>, finished |-> <<>>, meta_writer |-> 0, overlapped |-> FALSE]

Init ==
    /\ manifest \in ManifestFiles
    /\ markdown \in {md \in [FileNames -> UNION {MarkdownFiles(f) : f \in FileNames}] :
                        \A f \in FileNames : md[f] \in MarkdownFiles(f)}
    /\ metadata_file = NoFile
    /\ chunks_file = NoFile
    /\ \E dir \in MeetingDirs : IsSelf(__init__(dir, Disk, manifest, markdown))
    /\ last = Call("__init__", <<>>, FALSE, indexed)
    /\ race = NoRace
    /\ rebuild = NoRebuild

\* a new MeetingCorpus(dir, config) on the directory replaces the instance
Construct(dir) ==
    /\ SetSelf(__init__(dir, Disk, manifest, markdown))
    /\ last' = Call("__init__", <<dir>>, FALSE, indexed')
    /\ UNCHANGED <<fs_vars, disk_vars, race, rebuild>>

IndexCorpus(force_rebuild, fault) ==
    /\ IndexCorpusReturned(<<force_rebuild, fault>>,
            index_corpus(Self, Disk, manifest, markdown, force_rebuild, fault))

Search(query, filters, top_k, fault) ==
    /\ indexed => fault = "none"
    /\ SearchReturned(<<query, filters, top_k, fault>>,
            search(Self, Disk, manifest, markdown, query, filters, top_k, fault))

GetCorpusStats ==
    /\ last' = [Call("get_corpus_stats", <<>>, indexed, indexed)
                    EXCEPT !.stats = get_corpus_stats(Self, Disk)]
    /\ UNCHANGED <<fs_vars, disk_vars, self_vars, race, rebuild>>

\* another program writes or removes the manifest
WriteManifest(file) ==
    /\ manifest' = file
    /\ manifest' # manifest
    /\ last' = Call("env", <<>>, indexed, indexed)
    /\ UNCHANGED <<markdown, disk_vars, self_vars, race, rebuild>>

\* another program writes or removes a markdown file
WriteMarkdown(filename, file) ==
    /\ markdown' = [markdown EXCEPT ![filename] = file]
    /\ markdown' # markdown
    /\ last' = Call("env", <<>>, indexed, indexed)
    /\ UNCHANGED <<manifest, disk_vars, self_vars, race, rebuild>>

Next ==
    \/ \E dir \in MeetingDirs : Construct(dir)
    \/ \E force_rebuild \in BOOLEAN, fault \in Faults : IndexCorpus(force_rebuild, fault)
    \/ \E query \in Queries, filters \in FilterSets, top_k \in 1..MaxTopK,
          fault \in Faults : Search(query, filters, top_k, fault)
    \/ GetCorpusStats
    \/ \E file \in ManifestFiles : WriteManifest(file)
    \/ \E filename \in FileNames : \E file \in MarkdownFiles(filename) :
          WriteMarkdown(filename, file)

Spec == Init /\ [][Next]_vars

(***************************************************************************)
(* Two processes, each with its own MeetingCorpus on the same meeting      *)
(* directory, run index_corpus(force_rebuild=True) at the same time.  Each *)
(* reads the manifest and the markdown files, then _save_index opens the   *)
(* metadata file (which truncates it), writes it, opens the chunks file    *)
(* and writes it; the steps of the two interleave freely.  A write goes to *)
(* the start of the file, whatever the other process has put there since   *)
(* the open.  Both metadata texts have the same length here (same          *)
(* directory, counts of one digit), so the later one replaces the earlier; *)
(* the chunks file is taken line by line.                                  *)
(***************************************************************************)
Procs == {1, 2}
RaceDir == "data/m1"

\* a variant of the write that adds to the end of the file
WriteAppending(old, new) == old \o new

\* the file after new is written from its start over old
WriteAt(old, new) == new \o SubSeq(old, Len(new) + 1, Len(old))

\* lines 83-90: the process reads the directory and builds its index
RaceBuild(p) ==
    /\ race.procs[p].pc = "start"
    /\ race' = [race EXCEPT
                  !.procs[p] = [pc |-> "built",
                                self |-> _process_index_document(
                                    _process_meeting_documents(
                                        NewInstance(RaceDir), manifest.json,
                                        markdown).self,
                                    markdown)]]
    /\ UNCHANGED <<fs_vars, disk_vars, self_vars, last, rebuild>>

\* line 548: open(self.metadata_file, 'w')
RaceOpenMetadata(p) ==
    /\ race.procs[p].pc = "built"
    /\ race' = [race EXCEPT
                  !.procs[p].pc = "meta_open",
                  !.overlapped = @ \/ \E q \in Procs :
                      race.procs[q].pc \in {"meta_open", "meta_written", "chunks_open"}]
    /\ metadata_file' = BadJson
    /\ UNCHANGED <<fs_vars, chunks_file, self_vars, last, rebuild>>

\* line 549: json.dump(index_metadata, f), and the file is closed
RaceWriteMetadata(p) ==
    /\ race.procs[p].pc = "meta_open"
    /\ race' = [race EXCEPT !.procs[p].pc = "meta_written", !.meta_writer = p]
    /\ metadata_file' = JsonFile(IndexMetadata(race.procs[p].self))
    /\ UNCHANGED <<fs_vars, chunks_file, self_vars, last, rebuild>>

\* line 552: open(self.chunks_file, 'w')
RaceOpenChunks(p) ==
    /\ race.procs[p].pc = "meta_written"
    /\ race' = [race EXCEPT !.procs[p].pc = "chunks_open"]
    /\ chunks_file' = [exists |-> TRUE, lines |-> <<>>]
    /\ UNCHANGED <<fs_vars, metadata_file, self_vars, last, rebuild>>

\* lines 553-563: the lines are written and the file is closed; the call
\* returns
RaceWriteChunks(p) ==
    /\ race.procs[p].pc = "chunks_open"
    /\ race' = [race EXCEPT !.procs[p].pc = "done", !.finished = Append(@, p)]
    /\ chunks_file' =
          [exists |-> TRUE,
           lines |-> WriteAt(chunks_file.lines,
                             ChunkLines(race.procs[p].self.chunks))]
    /\ UNCHANGED <<fs_vars, metadata_file, self_vars, last, rebuild>>

InitRace ==
    /\ manifest = JsonFile([documents |-> <<Doc_Permit, Doc_Minutes>>])
    /\ markdown \in {md \in [FileNames -> UNION {MarkdownFiles(f) : f \in FileNames}] :
                        \A f \in FileNames : md[f] \in MarkdownFiles(f)}
    /\ metadata_file = NoFile
    /\ chunks_file = NoFile
    /\ IsSelf(NewInstance(RaceDir))
    /\ last = Call("env", <<>>, FALSE, FALSE)
    /\ race = [NoRace EXCEPT
                 !.procs = [p \in Procs |-> [pc |-> "start", self |-> NewInstance(RaceDir)]]]
    /\ rebuild = NoRebuild

NextRace ==
    \/ \E p \in Procs : RaceBuild(p)
    \/ \E p \in Procs : RaceOpenMetadata(p)
    \/ \E p \in Procs : RaceWriteMetadata(p)
    \/ \E p \in Procs : RaceOpenChunks(p)
    \/ \E p \in Procs : RaceWriteChunks(p)
    \/ \E file \in MarkdownFiles(FN_Permit) : WriteMarkdown(FN_Permit, file)

SpecRace == InitRace /\ [][NextRace]_vars

(***************************************************************************)
(* KnowledgeProvider._chunk_text on its own: the method reads nothing of   *)
(* the instance.  A call is made with a text of letters with up to two     *)
(* boundary characters in it, a chunk size and an overlap; then it         *)
(* returns.                                                                *)
(***************************************************************************)
MaxTextLen == 14
MaxChunkSize == 12
MaxOverlap == 2

\* chunk sizes without a look-back (under 4), with a look-back of one
\* character (4 to 7), of two (8 to 11) and of three or more
ChunkSizes == {1, 2, 4, 8} \cup {MaxChunkSize}

ChunkTexts ==
    UNION {{[p \in 1..n |-> IF p = i THEN c ELSE IF p = j THEN d ELSE "a"] :
                i \in 0..n, j \in 0..n, c \in {" ", "."}, d \in {" ", "."}} :
           n \in 0..MaxTextLen}

\* the call _chunk_text(text, chunk_size, overlap) and, once it has
\* returned, its result
ChunkCall(args, returned, result) ==
    [op |-> "_chunk_text", args |-> args, returned |-> returned, chunks |-> result]

InitChunk ==
    /\ manifest = NoFile
    /\ markdown = [f \in FileNames |-> NoFile]
    /\ metadata_file = NoFile
    /\ chunks_file = NoFile
    /\ IsSelf(NewInstance(RaceDir))
    /\ race = NoRace
    /\ rebuild = NoRebuild
    /\ \E t \in ChunkTexts, chunk_size \in ChunkSizes, overlap \in 0..MaxOverlap :
          last = ChunkCall(<<t, chunk_size, overlap>>, FALSE, <<>>)

ChunkText ==
    /\ last.op = "_chunk_text"
    /\ ~last.returned
    /\ last' = ChunkCall(last.args, TRUE,
                         _chunk_text(last.args[1], last.args[2], last.args[3]))
    /\ UNCHANGED <<fs_vars, disk_vars, self_vars, race, rebuild>>

SpecChunk == InitChunk /\ [][ChunkText]_vars

(***************************************************************************)
(* The while loop of _chunk_text, one iteration at a time.  last holds     *)
(* the call, the local variables start and chunks, and the number of       *)
(* iterations made so far.  An iteration is only taken while that number   *)
(* is at most len(text), which keeps the state space finite whatever the   *)
(* loop does.  A loop that is running keeps running, hence the weak        *)
(* fairness.                                                               *)
(***************************************************************************)
MaxLoopLen == 10

\* the texts and chunk sizes of the calls whose loop is followed
LoopTexts == {t \in ChunkTexts : Len(t) <= MaxLoopLen}
LoopSizes == {c \in ChunkSizes : c < MaxLoopLen}

ChunkLoop(args, returned, result, start, iterations) ==
    [op |-> "_chunk_text.while", args |-> args, returned |-> returned,
     chunks |-> result, start |-> start, iterations |-> iterations]

InitLoop ==
    /\ manifest = NoFile
    /\ markdown = [f \in FileNames |-> NoFile]
    /\ metadata_file = NoFile
    /\ chunks_file = NoFile
    /\ IsSelf(NewInstance(RaceDir))
    /\ race = NoRace
    /\ rebuild = NoRebuild
    /\ \E t \in LoopTexts, chunk_size \in LoopSizes, overlap \in 0..MaxOverlap :
          last = ChunkLoop(<<t, chunk_size, overlap>>, FALSE, <<>>, 0, 0)

\* if len(text) <= chunk_size: return [text]
LoopShortText ==
    /\ ~last.returned
    /\ Len(last.args[1]) <= last.args[2]
    /\ last' = ChunkLoop(last.args, TRUE, <<last.args[1]>>, last.start, last.iterations)
    /\ UNCHANGED <<fs_vars, disk_vars, self_vars, race, rebuild>>

\* the chunks after the window from start to end has been cut out
Emit(result, text, start, end) ==
    IF Strip(Slice(text, start, end)) # <<>>
    THEN Append(result, Strip(Slice(text, start, end)))
    ELSE result

\* one iteration of the while loop
LoopStep ==
    /\ ~last.returned
    /\ Len(last.args[1]) > last.args[2]
    /\ last.start < Len(last.args[1])
    /\ last.iterations <= Len(last.args[1])
    /\ last' = ChunkLoop(last.args, FALSE,
                         Emit(last.chunks, last.args[1], last.start,
                              WindowEnd(last.args[1], last.start, last.args[2])),
                         NextStart(last.start,
                                   WindowEnd(last.args[1], last.start, last.args[2]),
                                   last.args[3]),
                         last.iterations + 1)
    /\ UNCHANGED <<fs_vars, disk_vars, self_vars, race, rebuild>>

\* the loop condition fails: return chunks
LoopReturn ==
    /\ ~last.returned
    /\ Len(last.args[1]) > last.args[2]
    /\ last.start >= Len(last.args[1])
    /\ last' = ChunkLoop(last.args, TRUE, last.chunks, last.start, last.iterations)
    /\ UNCHANGED <<fs_vars, disk_vars, self_vars, race, rebuild>>

NextLoop == LoopShortText \/ LoopStep \/ LoopReturn

SpecLoop == InitLoop /\ [][NextLoop]_vars /\ WF_vars(NextLoop)

(***************************************************************************)
(* MeetingCorpus._create_agenda_item on its own: the method reads of the   *)
(* instance only the directory markdown/pdf-segments, taken not to exist.  *)
(* A call is made with a manifest entry and the content of its file; then  *)
(* it returns the AgendaItem or None.                                      *)
(***************************************************************************)
FN_Application ==
    <<"5", "b", "-", "p", "e", "r", "m", "i", "t", "-", "a", "p", "p", "l",
      "i", "c", "a", "t", "i", "o", "n", ".", "m", "d">>
FN_Item == <<"1", "a", "-", "i", "t", "e", "m", ".", "m", "d">>
Title_Application ==
    <<"5", "B", " ", "-", " ", "P", "e", "r", "m", "i", "t", " ", "A", "p",
      "p", "l", "i", "c", "a", "t", "i", "o", "n">>
Doc_Application == [filename |-> FN_Application, segment_title |-> Title_Application]

Paragraph_Application ==
    <<"T", "h", "e", " ", "a", "p", "p", "l", "i", "c", "a", "n", "t", " ",
      "s", "e", "e", "k", "s", " ", "a", "p", "p", "r", "o", "v", "a", "l",
      " ", "f", "o", "r", " ", "a", " ", "p", "e", "r", "m", "i", "t", " ",
      "f", "o", "r", " ", "w", "o", "r", "k", "s">>
\* a header, then the paragraph
Text_Application ==
    <<"#", " ", "5", "B", "\n", "\n">> \o Paragraph_Application
\* a paragraph of document metadata, then the paragraph
Text_Sourced ==
    <<"P", "a", "g", "e", "s", ":", " ", "3", "\n", "\n">> \o Paragraph_Application

\* the words a title is made of: the trigger words of the sections and one
\* word of no section
TitleWords ==
    {<<"A", "d", "m", "i", "n", "i", "s", "t", "r", "a", "t", "o", "r">>,
     <<"P", "u", "b", "l", "i", "c", " ", "H", "e", "a", "r", "i", "n", "g">>,
     <<"C", "o", "n", "s", "i", "d", "e", "r">>,
     <<"A", "p", "p", "r", "o", "v", "a", "l">>,
     <<"R", "e", "c", "e", "i", "p", "t">>,
     <<"P", "e", "r", "m", "i", "t">>}
\* the titles "1A", "1A <word>" and "1A <word> <other word>"
Titles ==
    {<<"1", "A">>}
    \cup {<<"1", "A", " ">> \o a : a \in TitleWords}
    \cup UNION {{<<"1", "A", " ">> \o a \o <<" ">> \o b : b \in TitleWords \ {a}} :
                    a \in TitleWords}
AgendaDocs ==
    {Doc_Application} \cup {[filename |-> FN_Item, segment_title |-> t] : t \in Titles}
AgendaContents == {Text_Application, Text_Sourced, Text_PermitA}

\* the call _create_agenda_item(doc_info, content) and, once it has
\* returned, the AgendaItem or NoneRecord
AgendaCall(args, returned, item) ==
    [op |-> "_create_agenda_item", args |-> args, returned |-> returned, item |-> item]

InitAgenda ==
    /\ manifest = NoFile
    /\ markdown = [f \in FileNames |-> NoFile]
    /\ metadata_file = NoFile
    /\ chunks_file = NoFile
    /\ IsSelf(NewInstance(RaceDir))
    /\ race = NoRace
    /\ rebuild = NoRebuild
    /\ \E doc_info \in AgendaDocs, content \in AgendaContents :
          last = AgendaCall(<<doc_info, content>>, FALSE, NoneRecord)

CreateAgendaItem ==
    /\ last.op = "_create_agenda_item"
    /\ ~last.returned
    /\ last' = AgendaCall(last.args, TRUE,
                          _create_agenda_item(last.args[1], last.args[2]))
    /\ UNCHANGED <<fs_vars, disk_vars, self_vars, race, rebuild>>

SpecAgenda == InitAgenda /\ [][CreateAgendaItem]_vars

(***************************************************************************)
(* MeetingCorpus._calculate_relevance_score on its own, as the loop of     *)
(* search calls it: a lowercased query is scored against the chunks that   *)
(* _create_document_chunks makes of one content for a file of each of      *)
(* three document types.  Between two scorings the content gains one more  *)
(* occurrence of a word of the query.                                      *)
(***************************************************************************)
MaxAppends == 5

ScoreQueries ==
    {<<"p", "e", "r", "m", "i", "t">>,
     <<"o", "k", " ", "p", "e", "r", "m", "i", "t">>,
     <<"w", "h", "a", "t", " ", "i", "s", " ", "o", "n", " ", "t", "h", "e",
       " ", "a", "g", "e", "n", "d", "a">>,
     <<"s", "p", "e", "c", "i", "f", "i", "c", " ", "i", "t", "e", "m">>,
     <<"w", "h", "a", "t", " ", "i", "t", "e", "m">>}
ScoreContents ==
    {<<>>,
     <<"P", "e", "r", "m", "i", "t", " ", "f", "e", "e">>,
     <<"W", "h", "a", "t", " ", "i", "s", " ", "o", "n", " ", "t", "h", "e",
       " ", "a", "g", "e", "n", "d", "a", "?">>}
\* the queries whose words are added to the content: those of one or two words
GrowingQueries == {query \in ScoreQueries : Len(Split(query)) <= 2}
\* a file of each document type: index, agenda_item, minutes
ScoreFiles == [index |-> FN_Index, agenda_item |-> FN_Permit, minutes |-> FN_Minutes]

\* the chunk of a file whose whole content is one chunk
ScoreChunk(filename, content) ==
    DocumentChunk(filename, content, 0, [filename |-> filename], ChunkSize, ChunkOverlap)

\* the values word_score takes for the words of the query, 0 for a word
\* that is skipped or absent
WordScores(query, content) ==
    [i \in 1..Len(Split(query)) |-> WordScore2(Split(query)[i], Lower(content))]

\* the scoring of a content under a query and, once it is done, the score
\* of the chunk of each file and the word scores; prior holds the word
\* scores of the scoring before
ScoreCall(args, returned, scores, word_scores, prior, appends) ==
    [op |-> "_calculate_relevance_score", args |-> args, returned |-> returned,
     scores |-> scores, word_scores |-> word_scores, prior |-> prior,
     appends |-> appends]

InitScore ==
    /\ manifest = NoFile
    /\ markdown = [f \in FileNames |-> NoFile]
    /\ metadata_file = NoFile
    /\ chunks_file = NoFile
    /\ IsSelf(NewInstance(RaceDir))
    /\ race = NoRace
    /\ rebuild = NoRebuild
    /\ \E query \in ScoreQueries, content \in ScoreContents :
          last = ScoreCall(<<query, content>>, FALSE, <<>>, <<>>, <<>>, 0)

CalculateScores ==
    /\ last.op = "_calculate_relevance_score"
    /\ ~last.returned
    /\ last' = ScoreCall(last.args, TRUE,
                         [t \in DOMAIN ScoreFiles |->
                             _calculate_relevance_score(
                                 last.args[1], ScoreChunk(ScoreFiles[t], last.args[2]))],
                         WordScores(last.args[1], last.args[2]),
                         last.prior, last.appends)
    /\ UNCHANGED <<fs_vars, disk_vars, self_vars, race, rebuild>>

\* the content gains an occurrence of a word of the query and is scored anew
AppendOccurrence(word) ==
    /\ last.op = "_calculate_relevance_score"
    /\ last.returned
    /\ last.appends < MaxAppends
    /\ last.args[1] \in GrowingQueries
    /\ last' = ScoreCall(<<last.args[1],
                           IF last.args[2] = <<>> THEN word
                           ELSE last.args[2] \o <<" ">> \o word>>,
                         FALSE, <<>>, <<>>, last.word_scores, last.appends + 1)
    /\ UNCHANGED <<fs_vars, disk_vars, self_vars, race, rebuild>>

NextScore ==
    \/ CalculateScores
    \/ \E word \in Range(Split(last.args[1])) : AppendOccurrence(word)

SpecScore == InitScore /\ [][NextScore]_vars

(***************************************************************************)
(* Searches of one instance on a directory with a well-formed manifest,    *)
(* with more queries, filters and values of top_k than Spec makes.         *)
(***************************************************************************)
InitSearch ==
    /\ Init
    /\ manifest = JsonFile([documents |-> <<Doc_Permit, Doc_Minutes>>])

NextSearch ==
    \/ IndexCorpus(TRUE, "none")
    \/ \E query \in SearchQueries, filters \in SearchFilterSets, top_k \in 0..SearchTopK :
          Search(query, filters, top_k, "none")
    \/ \E file \in MarkdownFiles(FN_Permit) : WriteMarkdown(FN_Permit, file)

SpecSearch == InitSearch /\ [][NextSearch]_vars

(***************************************************************************)
(* One thread of the process is inside index_corpus(force_rebuild=True) on *)
(* an indexed instance while another thread of it searches.  The rebuild   *)
(* works on the attributes of the instance itself, and no lock is taken:   *)
(* it reads the manifest, empties the three collections, processes the     *)
(* manifest entries one by one, adds the index document, saves and         *)
(* returns.  A search runs to its end between two of these steps.  The     *)
(* files stay as they are while the rebuild is at work.                    *)
(***************************************************************************)
\* a step of the rebuilding thread that has not returned
RebuildAt(pc, i) ==
    /\ rebuild' = [rebuild EXCEPT !.pc = pc, !.i = i]
    /\ last' = Call("index_corpus_step", <<pc>>, indexed, indexed)
    /\ UNCHANGED <<fs_vars, disk_vars, race>>

\* lines 71-84: force_rebuild on an indexed corpus, and the manifest is read
RebuildStart ==
    /\ rebuild.pc = "idle"
    /\ indexed
    /\ manifest.exists
    /\ manifest.valid
    /\ rebuild' = [pc |-> "reset", i |-> 1, raw_metadata |-> manifest.json,
                   before |-> chunks]
    /\ last' = Call("index_corpus_step", <<"reset">>, indexed, indexed)
    /\ UNCHANGED <<fs_vars, disk_vars, self_vars, race>>

\* lines 199-201
RebuildReset ==
    /\ rebuild.pc = "reset"
    /\ SetSelf(ResetIndex(Self))
    /\ RebuildAt("loop", 1)

\* lines 204-246: one manifest entry; after the last one, the meeting
\* context; the KeyError of an entry without 'filename' ends the call
RebuildEntry ==
    /\ rebuild.pc = "loop"
    /\ LET docs == RawDocuments(rebuild.raw_metadata)
           i == rebuild.i
       IN  IF i > Len(docs)
           THEN /\ SetSelf(CreateMeetingContext([self |-> Self, raised |-> FALSE],
                                                rebuild.raw_metadata).self)
                /\ RebuildAt("index_document", i)
           ELSE IF "filename" \notin DOMAIN docs[i]
           THEN /\ rebuild' = NoRebuild
                /\ last' = Call("index_corpus", <<TRUE, "none">>, indexed, FALSE)
                /\ UNCHANGED <<fs_vars, disk_vars, self_vars, race>>
           ELSE /\ SetSelf(ProcessEntry(Self, docs[i],
                                        FileOf(markdown, docs[i].filename)))
                /\ RebuildAt("loop", i + 1)

\* line 90
RebuildIndexDocument ==
    /\ rebuild.pc = "index_document"
    /\ SetSelf(_process_index_document(Self, markdown))
    /\ RebuildAt("save", rebuild.i)

\* lines 93-98: the index is saved and the call returns
RebuildSave ==
    /\ rebuild.pc = "save"
    /\ SetSelf(SaveAndMark(Self, Disk, "none").self)
    /\ SetDisk(SaveAndMark(Self, Disk, "none").disk)
    /\ rebuild' = NoRebuild
    /\ last' = Call("index_corpus", <<TRUE, "none">>, indexed, TRUE)
    /\ UNCHANGED <<fs_vars, race>>

NextReindex ==
    \/ rebuild.pc = "idle" /\ IndexCorpus(FALSE, "none")
    \/ RebuildStart
    \/ RebuildReset
    \/ RebuildEntry
    \/ RebuildIndexDocument
    \/ RebuildSave
    \/ \E query \in Queries, filters \in FilterSets, top_k \in 1..MaxTopK :
          indexed /\ Search(query, filters, top_k, "none")
    \/ \E file \in MarkdownFiles(FN_Permit) :
          rebuild.pc = "idle" /\ WriteMarkdown(FN_Permit, file)

SpecReindex == Init /\ [][NextReindex]_vars

(***************************************************************************)
(* Properties.  last is the call that led to the state: in a step, last'   *)
(* is the call made, the unprimed variables are the state it was made in   *)
(* and the primed ones the state it left.                                  *)
(***************************************************************************)
NoDisk == [metadata_file |-> NoFile, chunks_file |-> NoFile]

\* the call has work to do: the corpus is not indexed, or force_rebuild
HadWork == last.args[1] \/ ~last.was_indexed

\* the manifest is read and no entry of it lacks its 'filename'
ManifestIsWellFormed ==
    /\ manifest.exists
    /\ manifest.valid
    /\ \A i \in 1..Len(RawDocuments(manifest.json)) :
          "filename" \in DOMAIN RawDocuments(manifest.json)[i]

\* C1: a search on a corpus that is not indexed first attempts index_corpus();
\* when the attempt returns false the search returns the empty sequence and
\* the corpus stays unindexed; when it returns true the search is evaluated
\* over the index the attempt has just built.
C1_LazyIndexing ==
    [][(last'.op = "search" /\ ~indexed) =>
         LET attempt == index_corpus(Self, Disk, manifest, markdown, FALSE,
                                     last'.args[4])
         IN  /\ Self' = attempt.self
             /\ Disk' = attempt.disk
             /\ ~attempt.ret => (last'.evidence = <<>> /\ ~indexed')
             /\ attempt.ret =>
                  /\ indexed'
                  /\ last'.evidence = ScanChunks(chunks', last'.args[1], last'.args[2],
                                                 last'.args[3])
      ]_vars

\* a search that indexed the corpus lazily and found evidence in the new index
C1_Witness ==
    /\ last.op = "search"
    /\ ~last.was_indexed
    /\ indexed
    /\ last.evidence # <<>>

\* C2: when index_corpus has work to do and the manifest does not exist, it
\* returns false and leaves the instance and the two index files as they
\* were; a later call, once the manifest is supplied, can succeed.
C2_MissingManifest ==
    [][(last'.op = "index_corpus" /\ NeedsWork(Self, last'.args[1])
        /\ ~manifest.exists) =>
         /\ last'.ret = FALSE
         /\ UNCHANGED <<self_vars, disk_vars>>
         /\ \E mf \in ManifestFiles :
               index_corpus(Self', Disk', mf, markdown', last'.args[1], "none").ret
      ]_vars

\* a forced rebuild of an indexed corpus whose manifest is gone has failed
C2_Witness ==
    /\ last.op = "index_corpus"
    /\ last.ret = FALSE
    /\ last.args[1]
    /\ ~manifest.exists
    /\ indexed
    /\ chunks # <<>>

\* C3: a failure of the persistence layer while the index is saved is
\* propagated: index_corpus does not return true and the call does not mark
\* the corpus indexed.
C3_SaveFailurePropagates ==
    [][(last'.op = "index_corpus" /\ NeedsWork(Self, last'.args[1])
        /\ ManifestIsWellFormed /\ last'.args[2] # "none") =>
         /\ last'.ret = FALSE
         /\ ~indexed => ~indexed'
      ]_vars

\* C4: on an indexed corpus index_corpus() without force_rebuild returns true
\* and does nothing: the instance and the index files are unchanged, and
\* get_corpus_stats() is the same before and after.
C4_NoOpWhenIndexed ==
    [][(last'.op = "index_corpus" /\ indexed /\ ~last'.args[1]) =>
         /\ last'.ret = TRUE
         /\ UNCHANGED <<self_vars, disk_vars>>
         /\ get_corpus_stats(Self', Disk') = get_corpus_stats(Self, Disk)
      ]_vars

\* index_corpus() has returned true on an indexed corpus whose manifest is gone
C4_Witness ==
    /\ last.op = "index_corpus"
    /\ last.was_indexed
    /\ ~last.args[1]
    /\ last.ret = TRUE
    /\ chunks # <<>>
    /\ ~manifest.exists

\* C5: once an instance is indexed, no index_corpus, search or accessor call
\* (nor anything written to the directory) makes it unindexed again.
C5_IndexedIsOneWay ==
    [][(indexed /\ last'.op # "__init__") => indexed']_vars

\* a forced rebuild of an indexed corpus has failed and the corpus is indexed
C5_Witness ==
    /\ last.op = "index_corpus"
    /\ last.was_indexed
    /\ last.args[1]
    /\ last.ret = FALSE
    /\ indexed

\* what a new instance on the directory as it is now builds, saving nothing
FreshIndex ==
    index_corpus(NewInstance(meeting_dir), NoDisk, manifest, markdown, TRUE, "none").self

\* C6: after an index_corpus(force_rebuild=true) that returned true, the
\* documents, chunks and agenda items in memory are exactly those of the
\* manifest and markdown files as they are now, and the chunks file holds
\* exactly the new chunks.
C6_ForceRebuildReplaces ==
    (last.op = "index_corpus" /\ last.args[1] /\ last.ret) =>
        /\ documents = FreshIndex.documents
        /\ chunks = FreshIndex.chunks
        /\ agenda_items = FreshIndex.agenda_items
        /\ chunks_file.exists
        /\ chunks_file.lines = ChunkLines(chunks)

\* the index files allow the load: both exist, the metadata parses and the
\* meeting directory it records is the instance's
CanLoad ==
    /\ metadata_file.exists
    /\ chunks_file.exists
    /\ metadata_file.valid
    /\ metadata_file.json.meeting_dir = meeting_dir

\* C7: right after construction the instance is indexed, with the chunks of
\* the chunks file, exactly when both index files exist, the metadata parses
\* and it records the instance's meeting directory; otherwise, and so when
\* the recorded directory is another, it is unindexed with no chunk.
C7_LoadFastPath ==
    last.op = "__init__" =>
        /\ indexed <=> CanLoad
        /\ chunks = IF CanLoad THEN LoadChunks(chunks_file.lines) ELSE <<>>

\* an instance constructed on a persisted index that the markdown files no
\* longer match: its chunks come from the chunks file
C7_Witness ==
    /\ last.op = "__init__"
    /\ indexed
    /\ chunks # <<>>
    /\ chunks # FreshIndex.chunks

\* the entries of the manifest whose markdown file exists, and those without
Listed == RawDocuments(manifest.json)
HasFile(i) == FileOf(markdown, Listed[i].filename).exists
HasKey(seq, key, value) == \E k \in 1..Len(seq) : seq[k][key] = value
HasChunkOf(filename) == \E k \in 1..Len(chunks) : chunks[k].metadata.filename = filename

\* C8: when index_corpus processes a manifest, an entry whose markdown file
\* does not exist gives no document, no chunk and no agenda item, every
\* entry whose file exists is indexed, and index_corpus returns true.
C8_MissingFileSkipped ==
    (last.op = "index_corpus" /\ HadWork /\ ManifestIsWellFormed) =>
        /\ last.ret
        /\ \A i \in 1..Len(Listed) :
              IF HasFile(i)
              THEN /\ HasKey(documents, "filename", Listed[i].filename)
                   /\ HasChunkOf(Listed[i].filename)
              ELSE /\ ~HasKey(documents, "filename", Listed[i].filename)
                   /\ ~HasChunkOf(Listed[i].filename)
                   /\ ~HasKey(agenda_items, "markdown_file", Listed[i].filename)

\* index_corpus has returned true on a manifest that lists a file that is
\* not there, and another that is
C8_Witness ==
    /\ last.op = "index_corpus"
    /\ HadWork
    /\ ManifestIsWellFormed
    /\ \E i \in 1..Len(Listed) : ~HasFile(i)
    /\ \E i \in 1..Len(Listed) : HasFile(i)
    /\ last.ret

\* C9 as the specification states it: no search call changes the instance or
\* the index files.
C9_SearchNeverMutates ==
    [][last'.op = "search" => UNCHANGED <<self_vars, disk_vars>>]_vars

\* C9, for an indexed corpus: a search changes neither the instance nor the
\* index files, and it returns what the chunks in memory and its arguments
\* determine, whatever was searched before.
C9_IndexedSearchIsPure ==
    [][(last'.op = "search" /\ indexed) =>
         /\ UNCHANGED <<self_vars, disk_vars>>
         /\ last'.evidence = ScanChunks(chunks, last'.args[1], last'.args[2],
                                        last'.args[3])
      ]_vars

\* a search of an indexed corpus has found evidence
C9_Witness ==
    /\ last.op = "search"
    /\ last.was_indexed
    /\ last.evidence # <<>>

\* both processes have returned from index_corpus(force_rebuild=True), and
\* the one that finished last
BothDone == Len(race.finished) = 2
LastFinisher == race.procs[race.finished[2]].self
MetadataOf(self) == JsonFile(IndexMetadata(self))
IsPrefix(s, t) == Len(s) <= Len(t) /\ SubSeq(t, 1, Len(s)) = s

C11_SearchSeesPartialIndex ==
    (rebuild.pc = "loop" /\ ManifestIsWellFormed) =>
        /\ chunks # rebuild.before
        /\ chunks # FreshIndex.chunks
        /\ IsPrefix(chunks, FreshIndex.chunks)
        /\ last.op = "search" =>
              last.evidence = ScanChunks(chunks, last.args[1], last.args[2], last.args[3])

\* a search ran during a rebuild and returned neither what the index before
\* the rebuild gives nor what the index after it gives
C11_Witness ==
    /\ rebuild.pc = "loop"
    /\ ManifestIsWellFormed
    /\ last.op = "search"
    /\ last.evidence #
          ScanChunks(rebuild.before, last.args[1], last.args[2], last.args[3])
    /\ last.evidence #
          ScanChunks(FreshIndex.chunks, last.args[1], last.args[2], last.args[3])

\* the search the state comes from: its arguments, its result and, for the
\* chunk at position i of the chunk map it scanned, the score and the filter
QueryLower == Lower(last.args[1])
TopK == last.args[3]
ScoreAt(i) == ScoreOf(QueryLower, chunks[i])
TypeAt(i) == Get(chunks[i].metadata, "document_type", None)
Matching ==
    {i \in 1..Len(chunks) :
        /\ ScoreAt(i).raw2 > 0
        /\ last.args[2] # <<>> =>
              \A key \in DOMAIN last.args[2] :
                  /\ key = "document_type" => TypeAt(i) = last.args[2][key]
                  /\ key = "agenda_item_id" =>
                        Contains(last.args[2][key], chunks[i].metadata.filename)}
\* the position in the chunk map of the k-th Evidence returned
PosOf(k) == CHOOSE i \in 1..Len(chunks) : chunks[i].chunk_id = last.evidence[k].chunk_id
ReturnedPositions == {PosOf(k) : k \in 1..Len(last.evidence)}
\* chunk i comes before chunk j in the full ranking: a greater score, or
\* the same score and an earlier place in the chunk map
RanksBefore(i, j) ==
    \/ Greater(ScoreAt(i), ScoreAt(j))
    \/ ~Greater(ScoreAt(j), ScoreAt(i)) /\ i < j

\* C12: a search with top_k = n >= 0 returns at most n Evidence objects,
\* and none when n = 0, whatever the query and the filters.
C12_AtMostTopK ==
    last.op = "search" =>
        /\ Len(last.evidence) <= TopK
        /\ TopK = 0 => last.evidence = <<>>

\* more chunks match than top_k allows, and exactly top_k are returned
C12_Witness ==
    /\ last.op = "search"
    /\ TopK > 0
    /\ Cardinality(Matching) > TopK
    /\ Len(last.evidence) = TopK

\* C13: the result of a search is the first top_k elements of the ranking
\* of all the matching chunks by non-increasing score, chunks of equal score
\* in the order of the chunk map.
C13_RankedPrefix ==
    (last.op = "search" /\ indexed) =>
        /\ Len(last.evidence) = Min(TopK, Cardinality(Matching))
        /\ \A k \in 1..Len(last.evidence) :
              /\ \E i \in Matching : chunks[i].chunk_id = last.evidence[k].chunk_id
              /\ last.evidence[k].relevance_score = ScoreAt(PosOf(k))
              /\ \A l \in (k + 1)..Len(last.evidence) :
                    /\ ~Greater(last.evidence[l].relevance_score,
                                last.evidence[k].relevance_score)
                    /\ RanksBefore(PosOf(k), PosOf(l))
              /\ \A j \in Matching \ ReturnedPositions : RanksBefore(PosOf(k), j)

\* the ranking reorders the chunk map, and a chunk was left out of the
\* result that has the score of a returned one and a later place in the map
C13_Witness ==
    /\ last.op = "search"
    /\ indexed
    /\ \E k \in 1..Len(last.evidence) : \E l \in (k + 1)..Len(last.evidence) :
          /\ PosOf(k) > PosOf(l)
          /\ Greater(last.evidence[k].relevance_score, last.evidence[l].relevance_score)
    /\ \E k \in 1..Len(last.evidence) : \E j \in Matching \ ReturnedPositions :
          /\ ~Greater(ScoreAt(PosOf(k)), ScoreAt(j))
          /\ ~Greater(ScoreAt(j), ScoreAt(PosOf(k)))
          /\ PosOf(k) < j

\* C14: every Evidence a search returns carries the score computed for its
\* chunk, and that score is greater than 0.
C14_PositiveScores ==
    last.op = "search" =>
        \A k \in 1..Len(last.evidence) :
            /\ last.evidence[k].relevance_score.raw2 > 0
            /\ \E i \in 1..Len(chunks) :
                  /\ chunks[i].chunk_id = last.evidence[k].chunk_id
                  /\ ScoreAt(i) = last.evidence[k].relevance_score

\* an unfiltered search returned fewer than top_k results although the
\* corpus holds more chunks: those of score 0 were left out
C14_Witness ==
    /\ last.op = "search"
    /\ last.args[2] = <<>>
    /\ last.evidence # <<>>
    /\ Len(last.evidence) < TopK
    /\ \E i \in 1..Len(chunks) : ScoreAt(i).raw2 = 0

\* C15: under filters = {'document_type': T} every Evidence returned has
\* source_type T, and the result is empty when no chunk of type T has a
\* positive score.
C15_DocumentTypeFilter ==
    (last.op = "search" /\ last.args[2] # <<>>) =>
        /\ \A k \in 1..Len(last.evidence) :
              last.evidence[k].source_type = last.args[2].document_type
        /\ (~ \E i \in 1..Len(chunks) :
                /\ TypeAt(i) = last.args[2].document_type
                /\ ScoreAt(i).raw2 > 0)
           => last.evidence = <<>>

\* a filtered search returned something and left out a chunk of another
\* type that the query matches
C15_Witness ==
    /\ last.op = "search"
    /\ last.args[2] # <<>>
    /\ last.evidence # <<>>
    /\ \E i \in 1..Len(chunks) :
          /\ TypeAt(i) # last.args[2].document_type
          /\ ScoreAt(i).raw2 > 0

\* C16: after an index_corpus that did its work and returned true, and after
\* a construction that loaded the index, get_meeting_context() returns a
\* MeetingContext whose documents are the Documents of the corpus and whose
\* total_documents is their number, the document_count of the stats.
C16_ContextHoldsAllDocuments ==
    (\/ last.op = "index_corpus" /\ HadWork /\ last.ret
     \/ last.op = "__init__" /\ indexed) =>
        /\ get_meeting_context(Self) # NoneRecord
        /\ get_meeting_context(Self).documents = documents
        /\ get_meeting_context(Self).total_documents =
              get_corpus_stats(Self, Disk).document_count

\* C17: each AgendaItem of get_agenda_items() names in markdown_file exactly
\* one Document of the corpus, and get_document finds it.
C17_AgendaItemsResolve ==
    \A k \in 1..Len(get_agenda_items(Self)) :
        /\ get_document(Self, get_agenda_items(Self)[k].markdown_file) # NoneRecord
        /\ Cardinality({i \in 1..Len(documents) :
                documents[i].filename = get_agenda_items(Self)[k].markdown_file}) = 1

\* an instance that loaded its index and made its agenda items again
C17_Witness ==
    /\ last.op = "__init__"
    /\ indexed
    /\ get_agenda_items(Self) # <<>>

\* metadata with no digit in the segment title and no --<digits>-<uppercase
\* letter>- in the filename
Unnumbered(doc_info) ==
    /\ \A c \in Range(Get(doc_info, "segment_title", <<>>)) : c \notin Digits
    /\ ~ \E i \in 1..Len(Get(doc_info, "filename", <<>>)) :
            FilenameItemAt(Get(doc_info, "filename", <<>>), i)
\* an entry of the manifest like that, whose file exists
NoItemNumber(i) == HasFile(i) /\ Unnumbered(Listed[i])

\* C18: for metadata without an item number in the title and in the
\* filename _create_agenda_item returns None; index_corpus stores and
\* chunks such a document, makes no AgendaItem for it and returns true.
C18_NoItemNumberNoAgendaItem ==
    /\ \A key \in KnownDocs :
          Unnumbered(key[1]) => _create_agenda_item(key[1], key[2]) = NoneRecord
    /\ (last.op = "index_corpus" /\ HadWork /\ ManifestIsWellFormed) =>
          /\ last.ret
          /\ \A i \in 1..Len(Listed) :
                NoItemNumber(i) =>
                    /\ get_document(Self, Listed[i].filename) # NoneRecord
                    /\ HasChunkOf(Listed[i].filename)
                    /\ ~HasKey(agenda_items, "markdown_file", Listed[i].filename)

\* index_corpus has indexed a document without an item number next to one
\* with an item number
C18_Witness ==
    /\ last.op = "index_corpus"
    /\ HadWork
    /\ ManifestIsWellFormed
    /\ last.ret
    /\ \E i \in 1..Len(Listed) : NoItemNumber(i)
    /\ agenda_items # <<>>

\* a call of _chunk_text has returned
Chunked == last.op = "_chunk_text" /\ last.returned

\* C19: every chunk _chunk_text returns has at most chunk_size characters.
C19_ChunkLengthBound ==
    Chunked => \A k \in 1..Len(last.chunks) : Len(last.chunks[k]) <= last.args[2]

\* the character at 1-based position p of the text lies in one of the
\* windows ws whose chunk is among the chunks returned
InEmittedChunk(p, ws, result) ==
    \E k \in 1..Len(ws) :
        /\ ws[k].start < p
        /\ p <= ws[k].end
        /\ \E m \in 1..Len(result) : result[m] = ws[k].chunk

\* the windows ws cover the text without gaps
Covers(ws, t, result) ==
    /\ ws # <<>>
    /\ ws[1].start = 0
    /\ \A k \in 2..Len(ws) : ws[k].start <= ws[k - 1].end
    /\ ws[Len(ws)].end >= Len(t)
    /\ \A p \in 1..Len(t) : t[p] \notin Whitespace => InEmittedChunk(p, ws, result)

\* C20: the windows of _chunk_text cover the text without gaps: the first
\* starts at the start of the text, each next one starts at or before the
\* end of the one before, the last one reaches the end of the text, and
\* every character that is not whitespace lies in an emitted chunk; a text
\* of at most chunk_size characters is returned whole.
C20_ChunkCoverage ==
    Chunked =>
        IF Len(last.args[1]) <= last.args[2] THEN last.chunks = <<last.args[1]>>
        ELSE Covers(Windows(last.args[1], 0, last.args[2], last.args[3]),
                    last.args[1], last.chunks)

\* some window but the last is shorter than chunk_size
CutShort(ws, chunk_size) ==
    /\ Len(ws) >= 2
    /\ \E k \in 1..(Len(ws) - 1) : ws[k].end - ws[k].start < chunk_size

\* a text of two windows or more, one of them cut at a boundary character,
\* was chunked with an overlap
C20_Witness ==
    /\ Chunked
    /\ last.args[3] > 0
    /\ Len(last.args[1]) > last.args[2]
    /\ CutShort(Windows(last.args[1], 0, last.args[2], last.args[3]), last.args[2])

\* the chunker is inside its while loop or has left it
InLoop == last.op = "_chunk_text.while"

\* C21: _chunk_text terminates on every input: each iteration of the while
\* loop moves the window start strictly forward, the loop makes at most
\* len(text) iterations, and the call returns, also when the overlap is at
\* least the chunk size.
C21_ChunkerTerminates ==
    /\ [][(InLoop /\ ~last.returned /\ ~last'.returned) => last'.start > last.start]_vars
    /\ [](InLoop => last.iterations <= Len(last.args[1]))
    /\ <>(InLoop /\ last.returned)

\* a call with an overlap of at least the chunk size on a longer text has
\* returned after one iteration for each character of the text
C21_Witness ==
    /\ InLoop
    /\ last.returned
    /\ last.args[3] >= last.args[2]
    /\ Len(last.args[1]) > last.args[2]
    /\ last.iterations = Len(last.args[1])
    /\ Len(last.chunks) > 1

\* a call of _create_agenda_item has returned
ItemCreated == last.op = "_create_agenda_item" /\ last.returned

\* C22: for the manifest entry with filename "5b-permit-application.md" and
\* segment_title "5B - Permit Application", and a content whose first
\* substantial paragraph begins "The applicant seeks approval for", the
\* AgendaItem has item_number "5B", section "NEW BUSINESS" and a description
\* that starts with that paragraph.
C22_PermitApplicationScenario ==
    (ItemCreated /\ last.args = <<Doc_Application, Text_Application>>) =>
        /\ last.item # NoneRecord
        /\ last.item.item_number = <<"5", "B">>
        /\ last.item.description # None
        /\ IsPrefix(Paragraph_Application, last.item.description)
        /\ last.item.section = "NEW BUSINESS"

\* the lowercased title of the AgendaItem returned contains the word
TitleHas(word) == Contains(word, Lower(last.item.title))
TitleHasNewBusiness ==
    TitleHas(SectionWords.consider) \/ TitleHas(SectionWords.approval)
        \/ TitleHas(SectionWords.receipt)

ScoresDone == last.op = "_calculate_relevance_score" /\ last.returned
\* the i-th word of the query scored
ScoredWord(i) == Split(last.args[1])[i]

\* C24: for a query word of at least 3 characters the word score min(0.5 *
\* count, 2.0) (kept doubled) never decreases when occurrences of a query
\* word are added to the content and never exceeds 2.0; a query word of
\* fewer than 3 characters scores nothing.
C24_WordScoreMonotoneAndCapped ==
    ScoresDone =>
        \A i \in 1..Len(last.word_scores) :
            /\ last.word_scores[i] <= 4
            /\ last.appends > 0 => last.word_scores[i] >= last.prior[i]
            /\ Len(ScoredWord(i)) < 3 => last.word_scores[i] = 0
            /\ (Len(ScoredWord(i)) >= 3
                   /\ Count(ScoredWord(i), Lower(last.args[2])) > 0) =>
                  last.word_scores[i] > 0

\* after occurrences were added, a word of the query occurs more than four
\* times and scores 2.0, and a word of two characters occurs and scores 0
C24_Witness ==
    /\ ScoresDone
    /\ last.appends > 0
    /\ \E i \in 1..Len(last.word_scores) :
          /\ Count(ScoredWord(i), Lower(last.args[2])) > 4
          /\ last.word_scores[i] = 4
    /\ \E i \in 1..Len(last.word_scores) :
          /\ Len(ScoredWord(i)) < 3
          /\ Count(ScoredWord(i), Lower(last.args[2])) > 0

\* the query scored contains one of the words
QueryHas(words) == \E word \in words : Contains(word, last.args[1])
OverviewWords == {QueryWords.agenda, QueryWords.what, QueryWords.overview}
SpecificWords == {QueryWords.item, QueryWords.specific}

\* C25: the chunk of type index scores 2.0 more (kept doubled) than the
\* same chunk without a type bonus exactly when the query contains
\* "agenda", "what" or "overview"; the chunk of type agenda_item scores
\* 1.5 more exactly when the query contains "item" or "specific"; no chunk
\* gets both bonuses; and under a query with one of the index words the
\* index chunk has a strictly greater score than the agenda_item chunk of
\* the same content, so it is ranked before it.
C25_DocumentTypeBonus ==
    ScoresDone =>
        /\ last.scores.index.raw2 - last.scores.minutes.raw2 =
              (IF QueryHas(OverviewWords) THEN 4 ELSE 0)
        /\ last.scores.agenda_item.raw2 - last.scores.minutes.raw2 =
              (IF QueryHas(SpecificWords) THEN 3 ELSE 0)
        /\ last.scores.index.norm = last.scores.agenda_item.norm
        /\ QueryHas(OverviewWords) =>
              /\ Positive(last.scores.index)
              /\ Greater(last.scores.index, last.scores.agenda_item)

\* the query "what is on the agenda" was scored against a content that
\* holds the phrase, and the agenda_item chunk has a positive score
C25_Witness ==
    /\ ScoresDone
    /\ Split(last.args[1]) = <<QueryWords.what, <<"i", "s">>, <<"o", "n">>,
                               <<"t", "h", "e">>, QueryWords.agenda>>
    /\ Contains(last.args[1], Lower(last.args[2]))
    /\ Positive(last.scores.agenda_item)
    /\ Greater(last.scores.index, last.scores.agenda_item)

\* index_corpus has just built the index and returned True, and the next
\* step constructs a new MeetingCorpus on the same meeting directory
ReloadAfterIndexing ==
    /\ last.op = "index_corpus"
    /\ HadWork
    /\ last.ret
    /\ last'.op = "__init__"
    /\ meeting_dir' = meeting_dir

\* C26: a new MeetingCorpus constructed on the unchanged meeting directory
\* right after a successful index_corpus is indexed and loads a chunk map
\* equal to the one index_corpus left in memory: the same chunks in the
\* same order; hence every search returns the same Evidence on both.
C26_PersistLoadRoundTrip ==
    [][ReloadAfterIndexing =>
          /\ indexed'
          /\ chunks' = chunks
          /\ \A query \in Queries, filters \in FilterSets :
                ScanChunks(chunks', Lower(query), filters, SearchTopK)
                    = ScanChunks(chunks, Lower(query), filters, SearchTopK)]_vars

\* get_document finds the Document of every chunk of the chunk map
EveryChunkHasItsDocument ==
    \A k \in 1..Len(chunks) : get_document(Self, chunks[k].file_path) # NoneRecord

\* C27: whenever the corpus is indexed, by index_corpus or by the load
\* fast path, get_document(chunk.file_path) is found for every chunk of
\* the chunk map, the chunks of index.md included; and the instance that
\* loads an index right after it was built has the document_count of the
\* instance that built it.
C27_ChunksBelongToDocuments ==
    /\ [](indexed => EveryChunkHasItsDocument)
    /\ [][(ReloadAfterIndexing /\ indexed') =>
             get_corpus_stats(Self, Disk).document_count' =
                 get_corpus_stats(Self, Disk).document_count]_vars

\* C28: whenever is_indexed() is true, get_meeting_context() returns a
\* MeetingContext, on every path to INDEXED: a successful index_corpus, and
\* the load fast path also when the manifest is missing or unreadable.
C28_IndexedHasMeetingContext ==
    indexed => get_meeting_context(Self) # NoneRecord

\* C29: an instance that the load fast path has marked indexed holds as
\* many chunks as the chunk_count of the metadata file it loaded, also
\* after a save that wrote only one of the two index files.
C29_LoadedChunksMatchMetadata ==
    (last.op = "__init__" /\ indexed) =>
        Len(chunks) = metadata_file.json.chunk_count

\* the windows whose chunk is emitted: those not empty after the strip
EmittedWindows(ws) == SelectSeq(ws, LAMBDA w : w.chunk # <<>>)

\* no window follows one that has reached the end of the text, and each
\* window but the first ends after the one before
NoRedundantWindow(ws, t) ==
    /\ \A k \in 1..(Len(ws) - 1) : ws[k].end < Len(t)
    /\ \A k \in 2..Len(ws) : Min(ws[k].end, Len(t)) > Min(ws[k - 1].end, Len(t))

\* C30: for a text longer than chunk_size and 0 <= overlap < chunk_size,
\* _chunk_text emits no chunk after a window that has reached the end of
\* the text, so every chunk after the first holds a character position
\* beyond the end of the window of the chunk before.
C30_NoRedundantChunk ==
    (Chunked /\ Len(last.args[1]) > last.args[2] /\ last.args[3] < last.args[2]) =>
        NoRedundantWindow(
            EmittedWindows(Windows(last.args[1], 0, last.args[2], last.args[3])),
            last.args[1])
====
